---- MODULE Spec2Model ----
(***************************************************************************)
(* CSV bulk import of task-2-refactor/server.js: upload intake (multer),   *)
(* streaming decoder (csv-parser), row validation (Joi propertySchema),    *)
(* the POST /import-properties handler and the Property.insertMany gateway.*)
(*                                                                         *)
(* A string is a sequence of one-character strings, so that trimming,      *)
(* length checks and number parsing are computed and not assumed.          *)
(***************************************************************************)
EXTENDS Integers, Sequences, FiniteSets, TLC

\* ---------------------------------------------------------------- bounds
\* Most data rows of a small file.
MaxRows == 3
\* Number of data rows of the one large all-valid file.
BigRows == 1001

\* ------------------------------------------------------- program constants
\* title: Joi.string().trim().min(1).max(200)
TitleMin == 1
TitleMax == 200
\* projectId: Joi.string().trim().min(1)
ProjectIdMin == 1
\* multer limits.fileSize
FileSizeLimit == 10 * 1024 * 1024

\* ---------------------------------------------------------------- strings
Rep(c, n) == [i \in 1..n |-> c]

IsSpace(c) == c = " "

\* The index of the first and of the last character that is no blank
\* (Len(s) + 1 and 0 when there is none).
FirstNonSpace(s) ==
    IF \E i \in 1..Len(s) : ~IsSpace(s[i])
    THEN CHOOSE i \in 1..Len(s) : ~IsSpace(s[i]) /\ \A j \in 1..(i - 1) : IsSpace(s[j])
    ELSE Len(s) + 1

LastNonSpace(s) ==
    IF \E i \in 1..Len(s) : ~IsSpace(s[i])
    THEN CHOOSE i \in 1..Len(s) : ~IsSpace(s[i]) /\ \A j \in (i + 1)..Len(s) : IsSpace(s[j])
    ELSE 0

\* String.prototype.trim
Trim(s) == SubSeq(s, FirstNonSpace(s), LastNonSpace(s))

Digits == {"0", "1", "2", "3", "4", "5", "6", "7", "8", "9"}

DigitVal(c) ==
    CASE c = "0" -> 0 [] c = "1" -> 1 [] c = "2" -> 2 [] c = "3" -> 3
      [] c = "4" -> 4 [] c = "5" -> 5 [] c = "6" -> 6 [] c = "7" -> 7
      [] c = "8" -> 8 [] c = "9" -> 9

AllDigits(s) == \A i \in 1..Len(s) : s[i] \in Digits

RECURSIVE DigitsVal(_)
DigitsVal(s) ==
    IF s = <<>> THEN 0 ELSE DigitsVal(SubSeq(s, 1, Len(s) - 1)) * 10 + DigitVal(s[Len(s)])

RECURSIVE DropTrailingZeros(_)
DropTrailingZeros(s) ==
    IF s # <<>> /\ s[Len(s)] = "0" THEN DropTrailingZeros(SubSeq(s, 1, Len(s) - 1)) ELSE s

DotAt(s) == IF \E i \in 1..Len(s) : s[i] = "." THEN CHOOSE i \in 1..Len(s) : s[i] = "." /\ \A j \in 1..(i - 1) : s[j] # "." ELSE 0

\* The unsigned part of Joi's numeric string pattern, \d+(\.\d*)?|\.\d+
\* (the exponent part is not modelled: no drawn input carries one).
IsUnsignedDecimal(s) ==
    LET d == DotAt(s) IN
    IF d = 0
    THEN s # <<>> /\ AllDigits(s)
    ELSE /\ AllDigits(SubSeq(s, 1, d - 1))
         /\ AllDigits(SubSeq(s, d + 1, Len(s)))
         /\ Len(s) > 1

HasSign(s) == s # <<>> /\ Head(s) \in {"+", "-"}

Unsigned(s) == IF HasSign(s) THEN Tail(s) ELSE s

\* Joi number coerce from string: the pattern admits surrounding blanks
\* and one sign; anything else is left a string.
IsNumeric(s) == IsUnsignedDecimal(Unsigned(Trim(s)))

\* parseFloat of a string IsNumeric accepts, as sign, whole part and the
\* fractional digits without trailing zeros; Joi turns -0 into 0.
ParseFloat(s) ==
    LET t == Trim(s)
        u == Unsigned(t)
        d == DotAt(u)
        w == IF d = 0 THEN DigitsVal(u) ELSE DigitsVal(SubSeq(u, 1, d - 1))
        f == IF d = 0 THEN <<>> ELSE DropTrailingZeros(SubSeq(u, d + 1, Len(u)))
        zero == w = 0 /\ f = <<>>
    IN  [neg |-> HasSign(t) /\ Head(t) = "-" /\ ~zero, whole |-> w, frac |-> f]

\* Mutant: the bound is taken as inclusive, value >= 0.
IsPositive_AllowsZero(n) == ~n.neg

\* Joi number().positive(): value > 0
IsPositive(n) == ~n.neg /\ (n.whole > 0 \/ n.frac # <<>>)

\* ---------------------------------------------------------------- decoder
\* csv-parser names a cell beyond the header row by its index.
IndexKey(i) ==
    CASE i = 1 -> <<"_", "1">> [] i = 2 -> <<"_", "2">> [] i = 3 -> <<"_", "3">>
      [] OTHER -> <<"_", "4">>

CellKey(headers, i) == IF i <= Len(headers) THEN headers[i] ELSE IndexKey(i - 1)

\* csv-parser writeRow: one object per data line, a key per cell present;
\* a later cell of the same key overwrites an earlier one.
WriteRow(headers, cells) ==
    [k \in {CellKey(headers, i) : i \in 1..Len(cells)} |->
        cells[CHOOSE i \in 1..Len(cells) :
                 /\ CellKey(headers, i) = k
                 /\ \A j \in (i + 1)..Len(cells) : CellKey(headers, j) # k]]

\* -------------------------------------------------------------- validator
\* The spelling of a schema key, as it appears in a header line.
KeyChars(key) ==
    CASE key = "title" -> <<"t", "i", "t", "l", "e">>
      [] key = "price" -> <<"p", "r", "i", "c", "e">>
      [] key = "projectId" -> <<"p", "r", "o", "j", "e", "c", "t", "I", "d">>

Present(data, key) == KeyChars(key) \in DOMAIN data

Field(data, key) == data[KeyChars(key)]

\* Mutant: the string rules without trim().
StringRule_NoTrim(data, key, lo, hi) ==
    IF ~Present(data, key) THEN "any.required"
    ELSE LET v == Field(data, key) IN
         IF v = <<>> THEN "string.empty"
         ELSE IF Len(v) < lo THEN "string.min"
         ELSE IF hi > 0 /\ Len(v) > hi THEN "string.max"
         ELSE ""

\* Joi.string().trim().min(lo).max(hi).required() on one key: the type of
\* the first rule that fails, or "" when the key passes.  hi = 0: no max.
StringRule(data, key, lo, hi) ==
    IF ~Present(data, key) THEN "any.required"
    ELSE LET v == Trim(Field(data, key)) IN
         IF v = <<>> THEN "string.empty"
         ELSE IF Len(v) < lo THEN "string.min"
         ELSE IF hi > 0 /\ Len(v) > hi THEN "string.max"
         ELSE ""

\* Joi.number().positive().required() on one key.
NumberRule(data, key) ==
    IF ~Present(data, key) THEN "any.required"
    ELSE IF ~IsNumeric(Field(data, key)) THEN "number.base"
    ELSE IF ~IsPositive(ParseFloat(Field(data, key))) THEN "number.positive"
    ELSE ""

\* Joi's message templates for the rule types above.
Message(key, type) ==
    CASE key = "title" /\ type = "any.required" -> "\"title\" is required"
      [] key = "title" /\ type = "string.empty" -> "\"title\" is not allowed to be empty"
      [] key = "title" /\ type = "string.min" -> "\"title\" length must be at least 1 characters long"
      [] key = "title" /\ type = "string.max" -> "\"title\" length must be less than or equal to 200 characters long"
      [] key = "price" /\ type = "any.required" -> "\"price\" is required"
      [] key = "price" /\ type = "number.base" -> "\"price\" must be a number"
      [] key = "price" /\ type = "number.positive" -> "\"price\" must be a positive number"
      [] key = "projectId" /\ type = "any.required" -> "\"projectId\" is required"
      [] key = "projectId" /\ type = "string.empty" -> "\"projectId\" is not allowed to be empty"
      [] key = "projectId" /\ type = "string.min" -> "\"projectId\" length must be at least 1 characters long"

\* The keys of propertySchema in declaration order.
SchemaKeys == <<"title", "price", "projectId">>

\* The rule type failing on one schema key ("" when none).
RuleOf(data, key) ==
    CASE key = "title" -> StringRule(data, key, TitleMin, TitleMax)
      [] key = "price" -> NumberRule(data, key)
      [] key = "projectId" -> StringRule(data, key, ProjectIdMin, 0)

\* Mutant: price is declared, and so validated, before title.
ValidationOrder_PriceFirst == <<"price", "title", "projectId">>

\* The order in which the keys are validated: declaration order.
ValidationOrder == SchemaKeys

\* The keys the schema declares, as a record of the decoder spells them.
DeclaredKeys == {KeyChars(SchemaKeys[i]) : i \in 1..Len(SchemaKeys)}

\* Mutant: { allowUnknown: true }, the undeclared keys stay in the object.
StripUnknown_Keeps(data) == data

\* { stripUnknown: true }: the undeclared keys are deleted from the object.
StripUnknown(data) == [k \in DOMAIN data \cap DeclaredKeys |-> data[k]]

\* The properties of an object under keys the schema does not declare.
Others(object) == [k \in DOMAIN object \ DeclaredKeys |-> object[k]]

\* propertySchema.validate(data, { stripUnknown: true }): keys are checked
\* in order and the first failure ends the validation (abortEarly), so
\* error.details has one entry; on success value holds the declared keys,
\* converted (strings trimmed, price a number), and whatever stripping
\* leaves of the other keys (others).
Verdict(data, types) ==
    LET order == ValidationOrder
        failing == {i \in 1..Len(order) : types[i] # ""}
    IN  IF failing # {}
        THEN LET i == CHOOSE m \in failing : \A n \in failing : m <= n
                 key == order[i]
             IN  [error |-> TRUE,
                  details |-> <<[message |-> Message(key, types[i]),
                                 path |-> key,
                                 type |-> types[i]]>>,
                  value |-> [title |-> <<>>, price |-> ParseFloat(<<"0">>), projectId |-> <<>>,
                            others |-> Others(StripUnknown(data))]]
        ELSE [error |-> FALSE,
              details |-> <<>>,
              value |-> [title |-> Trim(Field(data, "title")),
                         price |-> ParseFloat(Field(data, "price")),
                         projectId |-> Trim(Field(data, "projectId")),
                         others |-> Others(StripUnknown(data))]]

\* The rule type failing on each key, in validation order, decides the verdict.
Validate(data) ==
    CHOOSE verdict \in
        {Verdict(data, types) :
            types \in {<<RuleOf(data, ValidationOrder[1]), RuleOf(data, ValidationOrder[2]),
                         RuleOf(data, ValidationOrder[3])>>}} : TRUE

\* csv-parser parseLine on one line without its newline: cells are cut at
\* every comma, and a line ending in a comma has one more, empty, cell
\* (quoted cells are not modelled: no drawn input carries a quote).
\* The index of the first c in s, 0 when there is none.
FindChar(s, c) ==
    IF \E i \in 1..Len(s) : s[i] = c
    THEN CHOOSE i \in 1..Len(s) : s[i] = c /\ \A j \in 1..(i - 1) : s[j] # c
    ELSE 0

RECURSIVE ParseLine(_)
ParseLine(line) ==
    LET i == FindChar(line, ",") IN
    IF i = 0 THEN (IF line = <<>> THEN <<>> ELSE <<line>>)
    ELSE IF i = Len(line) THEN <<SubSeq(line, 1, i - 1), <<>>>>
    ELSE <<SubSeq(line, 1, i - 1)>> \o ParseLine(SubSeq(line, i + 1, Len(line)))

\* The next line of the unread text and the text after it; the last line
\* need not end in a newline (csv-parser _flush).
NextLine(text) ==
    LET i == FindChar(text, "\n") IN
    IF i = 0 THEN [line |-> text, rest |-> <<>>]
    ELSE [line |-> SubSeq(text, 1, i - 1), rest |-> SubSeq(text, i + 1, Len(text))]

\* ------------------------------------------------------------------ state
VARIABLES
    upload,     \* the multipart field of the request, as sent by the client
    reqFile,    \* req.file: <<>> when undefined, else <<file>>
    pc,         \* position of the request in the middleware chain / handler
    now,        \* Date.now()
    startTime,  \* handler: startTime
    unread,     \* decoder: text not yet parsed
    first,      \* decoder: state.first, the header line is still to come
    headers,    \* decoder: this.headers
    rowIndex,   \* processCSVStream: rowIndex
    results,    \* processCSVStream: results
    errors,     \* processCSVStream: errors
    decoded,    \* history: the objects the decoder has emitted as 'data', in order
    logged,     \* the entries written through logger, in order
    settled,    \* history: the resolve / reject calls on processCSVStream's promise
    pending,    \* handler: propertiesWithBroker, the argument of insertMany
    calls,      \* Property.insertMany: the arguments of the calls received
    inserted,   \* handler: insertedProperties
    thrown,     \* the error passed to the catch block or the error middleware
    responses   \* the responses sent for the request, in order

\* The property API (task-3 backend): one server run, one request at a time.
VARIABLES
    db,            \* the database: reachable, and which tables exist
    propertiesTable, \* the rows of the properties table
    clock,         \* Date.now(), in days
    request,       \* the request being served
    apiPc,         \* position of the request in its route
    ran,           \* history: the route's handler has been entered for the request
    validatedData, \* POST /api/properties: validatedData
    apiResponses   \* history: the requests answered so far and their responses

apiVars == <<db, propertiesTable, clock, request, apiPc, ran, validatedData, apiResponses>>

\* task-4-ai-assisted-tool/marketing-server.js
VARIABLES
    reqBody,       \* req.body of POST /api/generate-description
    mktPc,         \* position of the request in the handler
    prompt,        \* generateDescription: prompt
    completion,    \* what groq.chat.completions.create came back with
    mktThrown,     \* the error on its way to the handler's catch: <<>> or <<message>>
    mktResponses   \* history: the responses sent

mktVars == <<reqBody, mktPc, prompt, completion, mktThrown, mktResponses>>

\* Two import requests served by one process.
VARIABLES
    imports,       \* per request: its file, the state of its stream and its response
    gateway        \* the insertMany calls made so far, by either request

twoVars == <<imports, gateway>>

vars == <<upload, reqFile, pc, now, startTime, unread, first, headers, rowIndex,
          results, errors, decoded, pending, calls, inserted, thrown, responses,
          logged, settled, apiVars, mktVars, twoVars>>

csvVars == <<upload, reqFile, pc, now, startTime, unread, first, headers, rowIndex,
             results, errors, decoded, pending, calls, inserted, thrown, responses,
             logged, settled>>

decoderVars == <<unread, first, headers, rowIndex, results, errors, decoded>>

\* authenticateUser: req.user = { id: 'broker_123' }
BrokerId == "broker_123"

\* A bound on the milliseconds that pass while the handler awaits.
MaxTick == 1

\* One entry of the log: logger.info / logger.error(message, meta).
LogEntry(level, message, meta) == [level |-> level, message |-> message, meta |-> meta]

\* error.stack: the error's class and message, then the frames.
Stack(error) ==
    <<IF error.multer THEN "MulterError" ELSE "Error", ": ", error.message, "\n    at ">>

Json(status, body) == [status |-> status, body |-> body]

\* A response body; an absent property is an empty sequence (or "" for
\* error), and message is the sequence of the parts of its template.
Body(success, error, message, summary, validationErrors) ==
    [success |-> success, error |-> error, message |-> message,
     summary |-> summary, validationErrors |-> validationErrors]

\* ---------------------------------------------------------- upload intake
\* upload.single: no file part leaves req.file undefined.
MulterNoFile ==
    /\ pc = "multer"
    /\ ~upload.attached
    /\ reqFile' = <<>>
    /\ pc' = "handler"
    /\ UNCHANGED <<upload, now, startTime, decoderVars, pending, calls, inserted,
                   thrown, responses>>
    /\ UNCHANGED <<logged, settled, apiVars, mktVars, twoVars>>

\* fileFilter: a mimetype other than text/csv is passed on as an Error.
MulterFileFilter ==
    /\ pc = "multer"
    /\ upload.attached
    /\ upload.mimetype # "text/csv"
    /\ thrown' = <<[multer |-> FALSE, code |-> "", message |-> "Only CSV files are allowed"]>>
    /\ pc' = "errorMiddleware"
    /\ UNCHANGED <<upload, reqFile, now, startTime, decoderVars, pending, calls,
                   inserted, responses>>
    /\ UNCHANGED <<logged, settled, apiVars, mktVars, twoVars>>

\* limits.fileSize: a larger file is passed on as MulterError LIMIT_FILE_SIZE.
MulterFileSize ==
    /\ pc = "multer"
    /\ upload.attached
    /\ upload.mimetype = "text/csv"
    /\ upload.size > FileSizeLimit
    /\ thrown' = <<[multer |-> TRUE, code |-> "LIMIT_FILE_SIZE", message |-> "File too large"]>>
    /\ pc' = "errorMiddleware"
    /\ UNCHANGED <<upload, reqFile, now, startTime, decoderVars, pending, calls,
                   inserted, responses>>
    /\ UNCHANGED <<logged, settled, apiVars, mktVars, twoVars>>

\* memoryStorage: the accepted file is handed over as req.file.
MulterAccept ==
    /\ pc = "multer"
    /\ upload.attached
    /\ upload.mimetype = "text/csv"
    /\ upload.size <= FileSizeLimit
    /\ reqFile' = <<[buffer |-> upload.buffer, size |-> upload.size,
                     mimetype |-> upload.mimetype]>>
    /\ pc' = "handler"
    /\ UNCHANGED <<upload, now, startTime, decoderVars, pending, calls, inserted,
                   thrown, responses>>
    /\ UNCHANGED <<logged, settled, apiVars, mktVars, twoVars>>

\* app.use((error, req, res, next) => ...)
ErrorMiddleware ==
    /\ pc = "errorMiddleware"
    /\ responses' = Append(responses,
          IF thrown[1].multer /\ thrown[1].code = "LIMIT_FILE_SIZE"
          THEN Json(400, Body(FALSE, "File too large. Maximum size is 10MB", <<>>, <<>>, <<>>))
          ELSE Json(500, Body(FALSE, "Internal server error", <<>>, <<>>, <<>>)))
    /\ pc' = "done"
    /\ UNCHANGED <<upload, reqFile, now, startTime, decoderVars, pending, calls,
                   inserted, thrown>>
    /\ logged' = IF thrown[1].multer /\ thrown[1].code = "LIMIT_FILE_SIZE"
                 THEN logged
                 ELSE Append(logged, LogEntry("error", <<"Unhandled error">>,
                                              [error |-> thrown[1].message,
                                               stack |-> Stack(thrown[1])]))
    /\ UNCHANGED <<settled, apiVars, mktVars, twoVars>>

\* ---------------------------------------------------------------- handler
\* Mutant: the rejection is sent without return; the handler goes on to
\* read the buffer of the missing file and lands in the catch block.
RejectNoFile_FallsThrough ==
    /\ pc = "handler"
    /\ reqFile = <<>>
    /\ responses' = Append(responses,
          Json(400, Body(FALSE, "No CSV file provided", <<>>, <<>>, <<>>)))
    /\ thrown' = <<[multer |-> FALSE, code |-> "",
                    message |-> "Cannot read properties of undefined"]>>
    /\ pc' = "catch"
    /\ startTime' = now
    /\ UNCHANGED <<upload, reqFile, now, decoderVars, pending, calls, inserted>>
    /\ UNCHANGED <<logged, settled, apiVars, mktVars, twoVars>>

\* if (!req.file): 400 'No CSV file provided'
RejectNoFile ==
    /\ pc = "handler"
    /\ reqFile = <<>>
    /\ responses' = Append(responses,
          Json(400, Body(FALSE, "No CSV file provided", <<>>, <<>>, <<>>)))
    /\ pc' = "done"
    /\ startTime' = now
    /\ UNCHANGED <<upload, reqFile, now, decoderVars, pending, calls, inserted, thrown>>
    /\ UNCHANGED <<logged, settled, apiVars, mktVars, twoVars>>

\* Mutant: only the missing buffer is tested, not its length.
IsEmptyBuffer_LengthIgnored(file) == FALSE

\* if (!req.file.buffer || req.file.buffer.length === 0)
IsEmptyBuffer(file) == Len(file.buffer) = 0

\* 400 'Empty CSV file provided'
RejectEmptyFile ==
    /\ pc = "handler"
    /\ reqFile # <<>>
    /\ IsEmptyBuffer(reqFile[1])
    /\ responses' = Append(responses,
          Json(400, Body(FALSE, "Empty CSV file provided", <<>>, <<>>, <<>>)))
    /\ pc' = "done"
    /\ startTime' = now
    /\ UNCHANGED <<upload, reqFile, now, decoderVars, pending, calls, inserted, thrown>>
    /\ UNCHANGED <<logged, settled, apiVars, mktVars, twoVars>>

\* processCSVStream(req.file.buffer): the text is piped into the decoder.
StartStream ==
    /\ pc = "handler"
    /\ reqFile # <<>>
    /\ ~IsEmptyBuffer(reqFile[1])
    /\ startTime' = now
    /\ unread' = reqFile[1].buffer
    /\ first' = TRUE
    /\ headers' = <<>>
    /\ rowIndex' = 0
    /\ results' = <<>>
    /\ errors' = <<>>
    /\ decoded' = <<>>
    /\ pc' = "stream"
    /\ UNCHANGED <<upload, reqFile, now, pending, calls, inserted, thrown, responses>>
    /\ logged' = Append(logged, LogEntry("info", <<"Starting CSV import">>,
                                    [fileSize |-> reqFile[1].size, brokerId |-> BrokerId]))
    /\ UNCHANGED <<settled, apiVars, mktVars, twoVars>>

\* csv-parser: the first line becomes the headers and emits no 'data'.
OnHeaders ==
    /\ pc = "stream"
    /\ unread # <<>>
    /\ first
    /\ headers' = ParseLine(NextLine(unread).line)
    /\ unread' = NextLine(unread).rest
    /\ first' = FALSE
    /\ UNCHANGED <<upload, reqFile, pc, now, startTime, rowIndex, results, errors,
                   decoded, pending, calls, inserted, thrown, responses>>
    /\ UNCHANGED <<logged, settled, apiVars, mktVars, twoVars>>

\* Mutant: the row is numbered before rowIndex is incremented.
RowError_ZeroBased(row, data, validation) ==
    [row |-> row - 1, data |-> data, error |-> validation.details[1].message]

\* The entry pushed to errors for a row that fails validation.
RowError(row, data, validation) ==
    [row |-> row, data |-> data, error |-> validation.details[1].message]

\* Mutant: the buffer of valid rows is emptied before each push.
OnData_ClearsBuffer ==
    /\ pc = "stream"
    /\ unread # <<>>
    /\ ~first
    /\ LET data == WriteRow(headers, ParseLine(NextLine(unread).line))
           validation == Validate(data)
       IN  /\ decoded' = Append(decoded, data)
           /\ rowIndex' = rowIndex + 1
           /\ IF validation.error
              THEN /\ errors' = Append(errors, RowError(rowIndex + 1, data, validation))
                   /\ UNCHANGED results
              ELSE /\ results' = <<validation.value>>
                   /\ UNCHANGED errors
    /\ unread' = NextLine(unread).rest
    /\ UNCHANGED <<upload, reqFile, pc, now, startTime, first, headers, pending,
                   calls, inserted, thrown, responses>>
    /\ UNCHANGED <<logged, settled, apiVars, mktVars, twoVars>>

\* Mutant: a row that fails validation is counted but filed nowhere.
OnData_DropsInvalid ==
    /\ pc = "stream"
    /\ unread # <<>>
    /\ ~first
    /\ LET data == WriteRow(headers, ParseLine(NextLine(unread).line))
           validation == Validate(data)
       IN  /\ decoded' = Append(decoded, data)
           /\ rowIndex' = rowIndex + 1
           /\ IF validation.error
              THEN /\ UNCHANGED errors
                   /\ UNCHANGED results
              ELSE /\ results' = Append(results, validation.value)
                   /\ UNCHANGED errors
    /\ unread' = NextLine(unread).rest
    /\ UNCHANGED <<upload, reqFile, pc, now, startTime, first, headers, pending,
                   calls, inserted, thrown, responses>>
    /\ UNCHANGED <<logged, settled, apiVars, mktVars, twoVars>>

\* .on('data', ...): count the row, validate it, file it under results or errors.
OnData ==
    /\ pc = "stream"
    /\ unread # <<>>
    /\ ~first
    /\ \E data \in {WriteRow(headers, ParseLine(NextLine(unread).line))} :
       \E validation \in {Validate(data)} :
           /\ decoded' = Append(decoded, data)
           /\ rowIndex' = rowIndex + 1
           /\ IF validation.error
              THEN /\ errors' = Append(errors, RowError(rowIndex + 1, data, validation))
                   /\ UNCHANGED results
              ELSE /\ results' = Append(results, validation.value)
                   /\ UNCHANGED errors
    /\ unread' = NextLine(unread).rest
    /\ UNCHANGED <<upload, reqFile, pc, now, startTime, first, headers, pending,
                   calls, inserted, thrown, responses>>
    /\ UNCHANGED <<logged, settled, apiVars, mktVars, twoVars>>

\* The lines of a text, in order; the last one with or without its newline.
Lines(text) ==
    LET IsNewline(i) == text[i] = "\n"
        ends == SelectSeq([i \in 1..Len(text) |-> i], IsNewline)
        Start(k) == IF k = 1 THEN 1 ELSE ends[k - 1] + 1
        whole == [k \in 1..Len(ends) |-> SubSeq(text, Start(k), ends[k] - 1)]
    IN  IF text # <<>> /\ text[Len(text)] # "\n"
        THEN Append(whole, SubSeq(text, Start(Len(ends) + 1), Len(text)))
        ELSE whole

\* Readable.from(string) hands the text over as one chunk, and the decoder
\* works through a chunk in one turn: the header line, then a 'data' event
\* for every line after it, each handled as in OnData.
OnChunk ==
    /\ pc = "stream"
    /\ unread # <<>>
    /\ first
    /\ \E lines \in {Lines(unread)} :
       \E rows \in {[r \in 1..(Len(lines) - 1) |-> WriteRow(ParseLine(lines[1]), ParseLine(lines[r + 1]))]} :
       \E verdicts \in {[r \in 1..Len(rows) |-> Validate(rows[r])]} :
          LET Fails(r) == verdicts[r].error
              Passes(r) == ~verdicts[r].error
          IN  \E failed \in {SelectSeq([r \in 1..Len(rows) |-> r], Fails)} :
              \E passed \in {SelectSeq([r \in 1..Len(rows) |-> r], Passes)} :
                 /\ headers' = ParseLine(lines[1])
                 /\ decoded' = rows
                 /\ rowIndex' = Len(rows)
                 /\ errors' = [k \in 1..Len(failed) |->
                                  RowError(failed[k], rows[failed[k]], verdicts[failed[k]])]
                 /\ results' = [k \in 1..Len(passed) |-> verdicts[passed[k]].value]
    /\ unread' = <<>>
    /\ first' = FALSE
    /\ UNCHANGED <<upload, reqFile, pc, now, startTime, pending, calls, inserted,
                   thrown, responses>>
    /\ UNCHANGED <<logged, settled, apiVars, mktVars, twoVars>>

\* Mutant: no 'end' listener is attached, the promise stays pending.
OnEnd_NeverSettles ==
    /\ pc = "stream"
    /\ unread = <<>>
    /\ UNCHANGED <<upload, reqFile, pc, now, startTime, decoderVars, pending, calls,
                   inserted, thrown, responses>>
    /\ UNCHANGED <<logged, settled, apiVars, mktVars, twoVars>>

\* .on('end', ...): resolve({ validProperties: results, errors }); the
\* handler resumes after its await, some milliseconds later.
OnEnd ==
    /\ pc = "stream"
    /\ unread = <<>>
    /\ \E d \in 0..MaxTick : now' = now + d
    /\ pc' = "resolved"
    /\ UNCHANGED <<upload, reqFile, startTime, decoderVars, pending, calls, inserted,
                   thrown, responses>>
    /\ settled' = Append(settled, "resolve")
    /\ UNCHANGED <<logged, apiVars, mktVars, twoVars>>

\* The error the decoder emits when it gives up on its input (csv-parser:
\* the line being read outgrows maxRowBytes).
DecodeError == [multer |-> FALSE, code |-> "", message |-> "Row exceeds the maximum size"]

\* Mutant: the 'error' listener resolves with what was gathered so far.
OnError_Resolves ==
    /\ pc = "stream"
    /\ thrown' = <<DecodeError>>
    /\ pc' = "resolved"
    /\ UNCHANGED <<upload, reqFile, now, startTime, decoderVars, pending, calls,
                   inserted, responses>>
    /\ settled' = Append(settled, "resolve")
    /\ UNCHANGED <<logged, apiVars, mktVars, twoVars>>

\* .on('error', reject): the decoder fails at some point of the stream, the
\* awaited promise rejects and control passes to the catch block.
OnError ==
    /\ pc = "stream"
    /\ thrown' = <<DecodeError>>
    /\ pc' = "catch"
    /\ UNCHANGED <<upload, reqFile, now, startTime, decoderVars, pending, calls,
                   inserted, responses>>
    /\ settled' = Append(settled, "reject")
    /\ UNCHANGED <<logged, apiVars, mktVars, twoVars>>

\* Mutant: the test for no valid row never succeeds.
NoValidProperties_Never(validProperties) == Len(validProperties) < 0

\* if (validProperties.length === 0)
NoValidProperties(validProperties) == Len(validProperties) = 0

\* Mutant: the rejection leaves the accumulated errors out.
NoValidResponse_NoErrors(errs) ==
    Json(400, Body(FALSE, "No valid properties found in CSV", <<>>, <<>>, <<>>))

\* The 400 response of that branch: the accumulated errors, no summary.
NoValidResponse(errs) ==
    Json(400, Body(FALSE, "No valid properties found in CSV", <<>>, <<>>, <<errs>>))

RejectNoValid ==
    /\ pc = "resolved"
    /\ NoValidProperties(results)
    /\ responses' = Append(responses, NoValidResponse(errors))
    /\ pc' = "done"
    /\ UNCHANGED <<upload, reqFile, now, startTime, decoderVars, pending, calls,
                   inserted, thrown>>
    /\ UNCHANGED <<logged, settled, apiVars, mktVars, twoVars>>

\* Mutant: the records are submitted without the caller's identity.
WithBroker_Anonymous(property, brokerId, createdAt) ==
    [title |-> property.title, price |-> property.price,
     projectId |-> property.projectId, others |-> property.others,
     brokerId |-> "", createdAt |-> createdAt]

\* validProperties.map(property => ({ ...property, brokerId, createdAt }))
WithBroker(property, brokerId, createdAt) ==
    [title |-> property.title, price |-> property.price,
     projectId |-> property.projectId, others |-> property.others,
     brokerId |-> brokerId, createdAt |-> createdAt]

\* Mutant: the last valid row is left out of the call.
PropertiesWithBroker_DropLast(validProperties, brokerId, createdAt) ==
    [i \in 1..(Len(validProperties) - 1) |-> WithBroker(validProperties[i], brokerId, createdAt)]

PropertiesWithBroker(validProperties, brokerId, createdAt) ==
    [i \in 1..Len(validProperties) |-> WithBroker(validProperties[i], brokerId, createdAt)]

\* The handler builds propertiesWithBroker and calls Property.insertMany once.
CallInsertMany ==
    /\ pc = "resolved"
    /\ ~NoValidProperties(results)
    /\ pending' = PropertiesWithBroker(results, BrokerId, now)
    /\ calls' = Append(calls, pending')
    /\ pc' = "insertMany"
    /\ UNCHANGED <<upload, reqFile, now, startTime, decoderVars, inserted, thrown,
                   responses>>
    /\ logged' = Append(logged, LogEntry("info",
                                    <<"Batch inserting ", Len(results), " properties">>, <<>>))
    /\ UNCHANGED <<settled, apiVars, mktVars, twoVars>>

\* Property.insertMany: every record comes back with an id, Date.now() + index.
InsertMany(properties, time) ==
    [i \in 1..Len(properties) |->
        [title |-> properties[i].title, price |-> properties[i].price,
         projectId |-> properties[i].projectId, others |-> properties[i].others,
         brokerId |-> properties[i].brokerId,
         createdAt |-> properties[i].createdAt, id |-> time + (i - 1)]]

\* await Property.insertMany(...) returns what the mock model returns.
InsertManyReturns ==
    /\ pc = "insertMany"
    /\ \E d \in 0..MaxTick :
          /\ now' = now + d
          /\ inserted' = InsertMany(pending, now')
    /\ pc' = "respond"
    /\ UNCHANGED <<upload, reqFile, startTime, decoderVars, pending, calls, thrown,
                   responses>>
    /\ UNCHANGED <<logged, settled, apiVars, mktVars, twoVars>>

\* A gateway behind the same call that stores only some of the records
\* (as an unordered bulk insert does) returns fewer than it was given.
InsertManyReturnsFewer ==
    /\ pc = "insertMany"
    /\ \E k \in {0, Len(pending) - 1} :
          inserted' = SubSeq(InsertMany(pending, now), 1, k)
    /\ pc' = "respond"
    /\ UNCHANGED <<upload, reqFile, now, startTime, decoderVars, pending, calls,
                   thrown, responses>>
    /\ UNCHANGED <<logged, settled, apiVars, mktVars, twoVars>>

\* The errors a gateway behind insertMany rejects with.
GatewayErrors == {"insertMany failed", "E11000 duplicate key error"}

\* The awaited call rejects: control passes to the catch block.
InsertManyThrows ==
    /\ pc = "insertMany"
    /\ \E message \in GatewayErrors :
          thrown' = <<[multer |-> FALSE, code |-> "", message |-> message]>>
    /\ pc' = "catch"
    /\ UNCHANGED <<upload, reqFile, now, startTime, decoderVars, pending, calls,
                   inserted, responses>>
    /\ UNCHANGED <<logged, settled, apiVars, mktVars, twoVars>>

\* Mutant: successful counts the validated rows handed to the gateway.
Summary_SuccessfulIsValid(validProperties, errs, insertedProperties, processingTime) ==
    [totalProcessed |-> Len(validProperties) + Len(errs),
     successful |-> Len(validProperties),
     failed |-> Len(errs),
     processingTimeMs |-> processingTime]

\* Mutant: totalProcessed counts the valid rows only.
Summary_ValidOnly(validProperties, errs, insertedProperties, processingTime) ==
    [totalProcessed |-> Len(validProperties),
     successful |-> Len(insertedProperties),
     failed |-> Len(errs),
     processingTimeMs |-> processingTime]

\* summary: { totalProcessed, successful, failed, processingTimeMs }
Summary(validProperties, errs, insertedProperties, processingTime) ==
    [totalProcessed |-> Len(validProperties) + Len(errs),
     successful |-> Len(insertedProperties),
     failed |-> Len(errs),
     processingTimeMs |-> processingTime]

\* Mutant: a file with an invalid row is turned down as a whole.
SuccessResponse_RejectsOnErrors(validProperties, errs, insertedProperties, processingTime) ==
    IF Len(errs) > 0
    THEN Json(400, Body(FALSE, "Validation failed", <<>>, <<>>, <<errs>>))
    ELSE Json(200, Body(TRUE, "", <<"Import completed">>,
                        <<Summary(validProperties, errs, insertedProperties, processingTime)>>,
                        <<>>))

\* res.status(200).json(response), with validationErrors only when some exist.
SuccessResponse(validProperties, errs, insertedProperties, processingTime) ==
    Json(200, Body(TRUE, "",
                   IF Len(errs) > 0
                   THEN <<"Import completed with ", Len(errs), " validation errors">>
                   ELSE <<"Import completed">>,
                   <<Summary(validProperties, errs, insertedProperties, processingTime)>>,
                   IF Len(errs) > 0 THEN <<errs>> ELSE <<>>))

Respond ==
    /\ pc = "respond"
    /\ responses' = Append(responses, SuccessResponse(results, errors, inserted, now - startTime))
    /\ pc' = "done"
    /\ UNCHANGED <<upload, reqFile, now, startTime, decoderVars, pending, calls,
                   inserted, thrown>>
    /\ logged' = Append(logged, LogEntry("info", <<"CSV import completed successfully">>,
                                    [totalRows |-> Len(results) + Len(errors),
                                     successfulInserts |-> Len(inserted),
                                     errorCount |-> Len(errors),
                                     processingTimeMs |-> now - startTime,
                                     brokerId |-> BrokerId]))
    /\ UNCHANGED <<settled, apiVars, mktVars, twoVars>>

\* Mutant: the catch block reports what was processed so far as a success.
InternalErrorResponse_Partial ==
    Json(200, Body(TRUE, "", <<"Import completed">>,
                   <<[totalProcessed |-> Len(results) + Len(errors), successful |-> 0,
                      failed |-> Len(errors), processingTimeMs |-> now - startTime]>>,
                   <<>>))

\* Mutant: the catch block passes the error's message on to the caller.
InternalErrorResponse_Leaks ==
    Json(500, Body(FALSE, "Internal server error during import",
                   <<thrown[1].message>>, <<>>, <<>>))

\* The body the catch block sends, whatever the error was.
InternalErrorResponse ==
    Json(500, Body(FALSE, "Internal server error during import",
                   <<"Please try again or contact support if the problem persists">>,
                   <<>>, <<>>))

\* catch (error): 500 with a fixed body.
Catch ==
    /\ pc = "catch"
    /\ responses' = Append(responses, InternalErrorResponse)
    /\ pc' = "done"
    /\ UNCHANGED <<upload, reqFile, now, startTime, decoderVars, pending, calls,
                   inserted, thrown>>
    /\ logged' = Append(logged, LogEntry("error", <<"CSV import failed">>,
                                    [error |-> thrown[1].message, stack |-> Stack(thrown[1]),
                                     brokerId |-> BrokerId]))
    /\ UNCHANGED <<settled, apiVars, mktVars, twoVars>>

\* ----------------------------------------------------------------- inputs
JoinCells(cells) ==
    IF cells = <<>> THEN <<>>
    ELSE LET F[i \in 1..Len(cells)] ==
                 IF i = 1 THEN cells[1] ELSE F[i - 1] \o <<",">> \o cells[i]
         IN  F[Len(cells)]

\* The text of a file: the header line and the data lines, each ended by a newline.
FileText(header, rows) ==
    LET lines == <<header>> \o rows
        F[i \in 0..Len(lines)] ==
            IF i = 0 THEN <<>> ELSE F[i - 1] \o JoinCells(lines[i]) \o <<"\n">>
    IN  F[Len(lines)]

Titles == {<<>>, <<" ">>, <<"O", "k">>, <<" ">> \o Rep("a", TitleMax) \o <<" ">>,
           Rep("a", TitleMax + 1)}
Prices == {<<"1", "0", "0">>, <<"-", "5">>, <<"0">>, <<"x">>, <<>>}
ProjectIds == {<<"p", "1">>, <<>>, <<" ">>}

\* Every combination of the cells above, each the one data row of a file.
AllRows == {<<t, p, j>> : t \in Titles, p \in Prices, j \in ProjectIds}

\* The rows of the files of several rows: two valid ones (one with a
\* padded title of the greatest length), one with a bad price, one with a
\* bad title and a bad price.
CoreRows == {<<<<"V", "i", "l", "l", "a">>, <<"5", "0", "0", "0", "0", "0">>, <<"p", "1">>>>,
             <<<<" ">> \o Rep("a", TitleMax) \o <<" ">>, <<"1">>, <<"p", "1">>>>,
             <<<<"O", "k">>, <<"-", "5">>, <<"p", "1">>>>,
             <<<<>>, <<"0">>, <<"p", "1">>>>}

\* Rows of other widths and number spellings.
SpecialRows == {<<<<"O", "k">>>>,
                <<<<"O", "k">>, <<"1", "0", "0">>>>,
                <<<<"O", "k">>, <<" ", "5", " ">>, <<"p", "1">>, <<"n">>>>,
                <<<<"O", "k">>, <<".", "5">>, <<"p", "1">>>>,
                <<<<"O", "k">>, <<"-", "0">>, <<"p", "1">>>>,
                <<<<"O", "k">>, <<"+", "7", ".", "5", "0">>, <<"p", "1">>>>}

Header3 == <<KeyChars("title"), KeyChars("price"), KeyChars("projectId")>>

\* A file with a fourth column, filled on a valid and on an invalid row.
NotesText ==
    FileText(Header3 \o <<<<"n", "o", "t", "e", "s">>>>,
             <<<<<<"O", "k">>, <<"1", "0", "0">>, <<"p", "1">>, <<"s", "e", "a">>>>,
               <<<<"O", "k">>, <<"-", "5">>, <<"p", "1">>, <<"s", "e", "a">>>>>>)

OtherHeaders == {<<KeyChars("title"), KeyChars("price"), KeyChars("projectId"), <<"n", "o", "t", "e", "s">>>>,
                 <<KeyChars("projectId"), KeyChars("price"), KeyChars("title")>>,
                 <<KeyChars("title"), KeyChars("price")>>}

RowSeqs == UNION {[1..n -> CoreRows] : n \in 0..MaxRows}

SmallTexts ==
    {FileText(Header3, <<r>>) : r \in AllRows}
    \cup {FileText(h, <<r>>) : h \in OtherHeaders \cup {Header3}, r \in SpecialRows}
    \cup {FileText(h, rows) : h \in OtherHeaders \cup {Header3}, rows \in RowSeqs}
    \cup {NotesText}

\* BigRows copies of one valid row under the three-column header.
BigText ==
    LET row == <<"V", ",", "1", ",", "p", "\n">>
    IN  FileText(Header3, <<>>) \o [i \in 1..(Len(row) * BigRows) |-> row[((i - 1) % Len(row)) + 1]]

CsvFile(text) == [attached |-> TRUE, mimetype |-> "text/csv", size |-> Len(text), buffer |-> text]

\* Requests that end at intake or hold a file of at most one row: no file
\* part, a file of another type, a file over the size limit (its content
\* is never delivered and is left out), an empty file, a file of a header
\* line, a file of one invalid row, a file without a final newline.
EdgeUploads ==
    {[attached |-> FALSE, mimetype |-> "", size |-> 0, buffer |-> <<>>],
     [attached |-> TRUE, mimetype |-> "application/json", size |-> 2, buffer |-> <<"{", "}">>],
     [attached |-> TRUE, mimetype |-> "text/csv", size |-> FileSizeLimit + 1, buffer |-> <<>>],
     CsvFile(<<>>),
     CsvFile(FileText(Header3, <<>>)),
     CsvFile(FileText(Header3, <<>>) \o <<"V", ",", "0", ",", "p", "\n">>),
     CsvFile(FileText(Header3, <<>>) \o <<"V", ",", "1", ",", "p">>)}

\* The requests of Spec: the edge cases and the small files.
Uploads == EdgeUploads \cup {CsvFile(t) : t \in SmallTexts}

\* The requests of SpecBig: the edge cases and the large file.
BigUploads == EdgeUploads \cup {CsvFile(BigText)}

\* =========================================================== property API
\* task-3-fullstack-app/backend/server.js.  Strings that are trimmed or
\* compared are sequences of characters; a date is a day written yyyymmdd.
\* A bound on the requests of one server run.
MaxRequests == 2

\* process.env.API_SECRET_KEY
ApiSecretKey == "your-secret-api-key-here"

\* if (!apiKey || apiKey !== process.env.API_SECRET_KEY); the header is
\* <<>> when the request carries none.
KeyRejected(apiKey) ==
    IF apiKey = <<>> THEN TRUE ELSE (apiKey[1] = "" \/ apiKey[1] # ApiSecretKey)

\* The routes of the API and those registered with authenticateApiKey.
Routes == {"GET /api/health", "GET /api/projects", "POST /api/properties", "GET /api/properties"}

Guarded(route) == route \in {"GET /api/projects", "POST /api/properties", "GET /api/properties"}

ProjectId(n) == <<"p", "r", "o", "j", "_", n>>

Project(n, name) == [id |-> ProjectId(n), name |-> name]

\* fallbackProjects / sampleProjects, in the order of the source.
FallbackProjects ==
    <<Project("1", "Downtown Towers"), Project("2", "Marina Residences"),
      Project("3", "Garden View Apartments"), Project("4", "Skyline Complex")>>

\* The projects table, when it exists, as .order('name') returns it: the
\* sample projects, or no row when their insert was turned down.
ProjectsByName ==
    IF db.seeded
    THEN <<FallbackProjects[1], FallbackProjects[3], FallbackProjects[2], FallbackProjects[4]>>
    ELSE <<>>

\* validProjectIds
ValidProjectIds == {FallbackProjects[i].id : i \in 1..Len(FallbackProjects)}

Property(id, title, size, price, handover, project, created) ==
    [id |-> id, title |-> title, size |-> size, price |-> price,
     handover_date |-> handover, project_id |-> project, created_at |-> created]

LuxuryVilla == <<"L", "u", "x", "u", "r", "y", " ", "B", "e", "a", "c", "h", "f", "r", "o", "n", "t", " ", "V", "i", "l", "l", "a">>
CityApartment == <<"M", "o", "d", "e", "r", "n", " ", "C", "i", "t", "y", " ", "A", "p", "a", "r", "t", "m", "e", "n", "t">>
GardenPenthouse == <<"G", "a", "r", "d", "e", "n", " ", "V", "i", "e", "w", " ", "P", "e", "n", "t", "h", "o", "u", "s", "e">>
SkylineStudio == <<"S", "k", "y", "l", "i", "n", "e", " ", "S", "t", "u", "d", "i", "o">>
WaterfrontCondo == <<"W", "a", "t", "e", "r", "f", "r", "o", "n", "t", " ", "C", "o", "n", "d", "o">>

\* sampleProperties, as the properties table holds them after
\* initializeDatabase: ids from the serial, created_at the day of the insert.
SampleProperties(day) ==
    <<Property(1, LuxuryVilla, 3500, 1250000, 20250815, ProjectId("2"), day),
      Property(2, CityApartment, 1200, 650000, 20250720, ProjectId("1"), day),
      Property(3, GardenPenthouse, 2800, 950000, 20250910, ProjectId("3"), day),
      Property(4, SkylineStudio, 850, 420000, 20250630, ProjectId("4"), day),
      Property(5, WaterfrontCondo, 1800, 780000, 20251005, ProjectId("2"), day)>>

\* fallbackProperties of GET /api/properties: three when the query returns
\* an error, the first two of them when it throws.
FallbackProperties(day) == SubSeq(SampleProperties(day), 1, 3)

FallbackPropertiesOnThrow(day) == SubSeq(SampleProperties(day), 1, 2)

\* What a query on a table comes to: it throws when the database cannot be
\* reached, returns { error } when the table does not exist, else { data }.
Query(table) ==
    IF ~db.reachable THEN "throws" ELSE IF ~db[table] THEN "error" ELSE "data"

\* .order('created_at', { ascending: false }); rows of one created_at stay
\* in table order.
OrderByCreatedDesc(rows) ==
    LET Before(j, i) == \/ rows[j].created_at > rows[i].created_at
                        \/ (rows[j].created_at = rows[i].created_at /\ j < i)
        Rank(i) == Cardinality({j \in 1..Len(rows) : Before(j, i)}) + 1
    IN  [k \in 1..Len(rows) |-> rows[CHOOSE i \in 1..Len(rows) : Rank(i) = k]]

\* The keys of the task-3 propertySchema in declaration order.
ApiSchemaKeys == <<"title", "size", "price", "handoverDate", "projectId">>

\* The type of the rule of the schema that body breaks on one key ("" when
\* none): strings are trimmed first, numbers are positive, the date is
\* greater than 'now'.
ApiRuleOf(body, key, time) ==
    IF key \notin DOMAIN body THEN "any.required"
    ELSE CASE key \in {"title", "projectId"} ->
                   IF Trim(body[key]) = <<>> THEN "string.empty"
                   ELSE IF key = "title" /\ Len(Trim(body[key])) > 200 THEN "string.max"
                   ELSE ""
           [] key \in {"size", "price"} ->
                   IF body[key] > 0 THEN "" ELSE "number.positive"
           [] key = "handoverDate" ->
                   IF body[key] > time THEN "" ELSE "date.greater"

\* Joi's message for a rule type, as the parts of its template.
ApiMessage(key, type) ==
    <<"\"", key, "\" ",
      CASE type = "any.required" -> "is required"
        [] type = "string.empty" -> "is not allowed to be empty"
        [] type = "string.max" -> "length must be less than or equal to 200 characters long"
        [] type = "number.positive" -> "must be a positive number"
        [] type = "date.greater" -> "must be greater than \"now\""
        [] type = "object.unknown" -> "is not allowed">>

\* propertySchema.validate(req.body): the first declared key that breaks a
\* rule ends the validation; a key the schema does not declare is an error
\* too, found after the declared ones.
ApiValidate(body, time) ==
    LET failing == {i \in 1..Len(ApiSchemaKeys) : ApiRuleOf(body, ApiSchemaKeys[i], time) # ""}
        unknown == DOMAIN body \ {ApiSchemaKeys[i] : i \in 1..Len(ApiSchemaKeys)}
        Fail(key, type) == [error |-> TRUE, details |-> <<ApiMessage(key, type)>>, value |-> <<>>]
    IN  IF failing # {}
        THEN LET key == ApiSchemaKeys[CHOOSE m \in failing : \A n \in failing : m <= n]
             IN  Fail(key, ApiRuleOf(body, key, time))
        ELSE IF unknown # {}
        THEN Fail(CHOOSE k \in unknown : TRUE, "object.unknown")
        ELSE [error |-> FALSE, details |-> <<>>,
              value |-> <<[title |-> Trim(body.title), size |-> body.size,
                           price |-> body.price, handoverDate |-> body.handoverDate,
                           projectId |-> Trim(body.projectId)]>>]

\* A response body; an absent property is an empty sequence (or "" for error).
ApiBody(success, error, message, data, details, timestamp) ==
    [success |-> success, error |-> error, message |-> message, data |-> data,
     details |-> details, timestamp |-> timestamp]

\* res.status(status).json(body): the request is answered.
Answer(status, body) ==
    /\ apiResponses' = Append(apiResponses, [request |-> request, status |-> status, body |-> body])
    /\ apiPc' = "idle"

\* ---------------------------------------------------------------- requests
ValidBody(projectId) ==
    [title |-> <<" ", "L", "o", "f", "t", " ">>, size |-> 900, price |-> 500000,
     handoverDate |-> 20270101, projectId |-> projectId]

\* Bodies of POST /api/properties: valid ones for a fallback project (one
\* with a padded id) and for a project that does not exist, and bodies that
\* break one rule each.
Bodies ==
    {ValidBody(ProjectId("1")),
     ValidBody(<<" ">> \o ProjectId("4") \o <<" ">>),
     ValidBody(ProjectId("9")),
     [ValidBody(ProjectId("1")) EXCEPT !.title = <<" ">>],
     [ValidBody(ProjectId("1")) EXCEPT !.price = 0],
     [ValidBody(ProjectId("1")) EXCEPT !.handoverDate = 20250101],
     [k \in {"title", "size", "price", "handoverDate"} |-> ValidBody(ProjectId("1"))[k]],
     [title |-> <<"L", "o", "f", "t">>, size |-> 900, price |-> 500000,
      handoverDate |-> 20270101, projectId |-> ProjectId("1"), brokerId |-> 7]}

\* The x-api-key header: absent, wrong, right.
ApiKeys == {<<>>, <<"guess">>, <<ApiSecretKey>>}

Requests ==
    {[route |-> r, apiKey |-> k, body |-> <<>>] :
        r \in Routes \ {"POST /api/properties"}, k \in ApiKeys}
    \cup {[route |-> "POST /api/properties", apiKey |-> <<ApiSecretKey>>, body |-> <<b>>] :
             b \in Bodies}
    \cup {[route |-> "POST /api/properties", apiKey |-> k, body |-> <<ValidBody(ProjectId("1"))>>] :
             k \in ApiKeys}

\* ------------------------------------------------------------------ routes
\* A request arrives and is routed: to authenticateApiKey on the routes
\* registered with it, else straight to the handler.
Arrive ==
    /\ apiPc = "idle"
    /\ Len(apiResponses) < MaxRequests
    /\ \E r \in Requests :
          /\ request' = r
          /\ apiPc' = IF Guarded(r.route) THEN "authenticateApiKey" ELSE r.route
    /\ clock' = clock + 1
    /\ ran' = FALSE
    /\ validatedData' = <<>>
    /\ UNCHANGED <<db, propertiesTable, apiResponses>>
    /\ UNCHANGED <<csvVars, mktVars, twoVars>>

\* authenticateApiKey: 401 without calling next().
Unauthorized ==
    /\ apiPc = "authenticateApiKey"
    /\ KeyRejected(request.apiKey)
    /\ Answer(401, ApiBody(FALSE, "Unauthorized: Invalid or missing API key", "", <<>>, <<>>, <<>>))
    /\ UNCHANGED <<db, propertiesTable, clock, request, ran, validatedData>>
    /\ UNCHANGED <<csvVars, mktVars, twoVars>>

\* authenticateApiKey: next().
Authorized ==
    /\ apiPc = "authenticateApiKey"
    /\ ~KeyRejected(request.apiKey)
    /\ apiPc' = request.route
    /\ UNCHANGED <<db, propertiesTable, clock, request, ran, validatedData, apiResponses>>
    /\ UNCHANGED <<csvVars, mktVars, twoVars>>

\* GET /api/health
Health ==
    /\ apiPc = "GET /api/health"
    /\ ran' = TRUE
    /\ Answer(200, ApiBody(TRUE, "", "API is running", <<>>, <<>>, <<clock>>))
    /\ UNCHANGED <<db, propertiesTable, clock, request, validatedData>>
    /\ UNCHANGED <<csvVars, mktVars, twoVars>>

\* Mutant: whatever the query returns without an error is passed on.
GetProjects_PassesEmpty ==
    /\ apiPc = "GET /api/projects"
    /\ ran' = TRUE
    /\ Answer(200, ApiBody(TRUE, "", "",
                           <<IF Query("projects") = "data"
                             THEN ProjectsByName ELSE FallbackProjects>>,
                           <<>>, <<>>))
    /\ UNCHANGED <<db, propertiesTable, clock, request, validatedData>>
    /\ UNCHANGED <<csvVars, mktVars, twoVars>>

\* GET /api/projects: the table's rows when the query returns some, else
\* (error, no row, or a throw) the fallback projects.
GetProjects ==
    /\ apiPc = "GET /api/projects"
    /\ ran' = TRUE
    /\ Answer(200, ApiBody(TRUE, "", "",
                           <<IF Query("projects") = "data" /\ Len(ProjectsByName) > 0
                             THEN ProjectsByName ELSE FallbackProjects>>,
                           <<>>, <<>>))
    /\ UNCHANGED <<db, propertiesTable, clock, request, validatedData>>
    /\ UNCHANGED <<csvVars, mktVars, twoVars>>

\* POST /api/properties: propertySchema.validate(req.body), 400 on an error.
PostValidate ==
    /\ apiPc = "POST /api/properties"
    /\ ran' = TRUE
    /\ LET validation == ApiValidate(request.body[1], clock)
       IN  IF validation.error
           THEN /\ Answer(400, ApiBody(FALSE, "Validation failed", "", <<>>,
                                       <<validation.details>>, <<>>))
                /\ UNCHANGED validatedData
           ELSE /\ validatedData' = validation.value
                /\ apiPc' = "projectCheck"
                /\ UNCHANGED apiResponses
    /\ UNCHANGED <<db, propertiesTable, clock, request>>
    /\ UNCHANGED <<csvVars, mktVars, twoVars>>

\* projectExists: the row found by the query; false when the query returns
\* an error; validProjectIds.includes(...) when the query throws.
ProjectExists(projectId) ==
    CASE Query("projects") = "data" ->
             \E i \in 1..Len(ProjectsByName) : ProjectsByName[i].id = projectId
      [] Query("projects") = "error" -> FALSE
      [] Query("projects") = "throws" -> projectId \in ValidProjectIds

\* if (!projectExists): 400 'Invalid project ID'
PostProjectCheck ==
    /\ apiPc = "projectCheck"
    /\ IF ProjectExists(validatedData[1].projectId)
       THEN /\ apiPc' = "insert"
            /\ UNCHANGED apiResponses
       ELSE Answer(400, ApiBody(FALSE, "Invalid project ID", "", <<>>, <<>>, <<>>))
    /\ UNCHANGED <<db, propertiesTable, clock, request, ran, validatedData>>
    /\ UNCHANGED <<csvVars, mktVars, twoVars>>

\* propertyData with the id given to it: the table's serial, or Date.now().
PropertyData(id, data, time) ==
    Property(id, data.title, data.size, data.price, data.handoverDate, data.projectId, time)

\* The insert: 201 with the stored row, or, when the insert returns an
\* error or throws, 201 with { id: Date.now(), ...propertyData } and
\* nothing stored.
PostInsert ==
    /\ apiPc = "insert"
    /\ IF Query("properties") = "data"
       THEN LET row == PropertyData(Len(propertiesTable) + 1, validatedData[1], clock)
            IN  /\ propertiesTable' = Append(propertiesTable, row)
                /\ Answer(201, ApiBody(TRUE, "", "Property created successfully",
                                       <<row>>, <<>>, <<>>))
       ELSE /\ Answer(201, ApiBody(TRUE, "",
                   "Property created successfully (database not available, property stored in memory)",
                   <<PropertyData(clock, validatedData[1], clock)>>, <<>>, <<>>))
            /\ UNCHANGED propertiesTable
    /\ UNCHANGED <<db, clock, request, ran, validatedData>>
    /\ UNCHANGED <<csvVars, mktVars, twoVars>>

\* GET /api/properties: the table's rows, newest first, or the fallback
\* properties when the query returns an error or throws.
GetProperties ==
    /\ apiPc = "GET /api/properties"
    /\ ran' = TRUE
    /\ Answer(200, ApiBody(TRUE, "", "",
                           <<CASE Query("properties") = "data" -> OrderByCreatedDesc(propertiesTable)
                               [] Query("properties") = "error" -> FallbackProperties(clock)
                               [] Query("properties") = "throws" -> FallbackPropertiesOnThrow(clock)>>,
                           <<>>, <<>>))
    /\ UNCHANGED <<db, propertiesTable, clock, request, validatedData>>
    /\ UNCHANGED <<csvVars, mktVars, twoVars>>

\* The database of a server run: out of reach, or in reach with each of
\* the two tables created or not.
DbModes ==
    {[reachable |-> FALSE, projects |-> FALSE, properties |-> FALSE, seeded |-> FALSE]}
    \cup {[reachable |-> TRUE, projects |-> a, properties |-> b, seeded |-> a] : a, b \in BOOLEAN}
    \cup {[reachable |-> TRUE, projects |-> TRUE, properties |-> TRUE, seeded |-> FALSE]}

\* The server after initializeDatabase, the first of November 2026.
ApiInitWith(modes) ==
    /\ db \in modes
    /\ propertiesTable = IF db.reachable /\ db.properties
                         THEN SampleProperties(20261101) ELSE <<>>
    /\ clock = 20261101
    /\ request = [route |-> "", apiKey |-> <<>>, body |-> <<>>]
    /\ apiPc = "idle"
    /\ ran = FALSE
    /\ validatedData = <<>>
    /\ apiResponses = <<>>

NextApi ==
    \/ Arrive
    \/ Unauthorized
    \/ Authorized
    \/ Health
    \/ GetProjects
    \/ PostValidate
    \/ PostProjectCheck
    \/ PostInsert
    \/ GetProperties

\* ===================================================== marketing generator
\* task-4-ai-assisted-tool/marketing-server.js.
\* A JSON value of the body: a missing property, a number, a string or an
\* array of strings.
Undefined == [type |-> "undefined", num |-> 0, str |-> "", arr |-> <<>>]
Num(n) == [type |-> "number", num |-> n, str |-> "", arr |-> <<>>]
Str(s) == [type |-> "string", num |-> 0, str |-> s, arr |-> <<>>]
Arr(a) == [type |-> "array", num |-> 0, str |-> "", arr |-> a]

\* !v: undefined, 0 and '' are falsy.
Falsy(v) ==
    \/ v.type = "undefined"
    \/ v.type = "number" /\ v.num = 0
    \/ v.type = "string" /\ v.str = ""

\* Number.prototype.toLocaleString: the digits in groups of three.
RECURSIVE ToLocaleString(_)
ToLocaleString(n) ==
    IF n < 1000 THEN <<n>> ELSE ToLocaleString(n \div 1000) \o <<",", n % 1000>>

\* The text of a body value placed in a template.
Text(v) ==
    CASE v.type = "number" -> ToLocaleString(v.num)
      [] v.type = "string" -> <<v.str>>
      [] v.type = "array" -> v.arr
      [] OTHER -> <<"undefined">>

\* const propertyData = { ..., propertyType: propertyType || 'home',
\* amenities: amenities || [] }
MktPropertyData(b) ==
    [bedrooms |-> b.bedrooms, bathrooms |-> b.bathrooms, size |-> b.size,
     location |-> b.location, price |-> b.price,
     propertyType |-> IF Falsy(b.propertyType) THEN Str("home") ELSE b.propertyType,
     amenities |-> IF Falsy(b.amenities) THEN Arr(<<>>) ELSE b.amenities]

\* amenities && amenities.length > 0
HasAmenities(data) ==
    \/ data.amenities.type = "array" /\ Len(data.amenities.arr) > 0
    \/ data.amenities.type = "string" /\ data.amenities.str # ""

\* createMarketingPrompt: the lines that depend on the property.
CreateMarketingPrompt(data) ==
    <<"- ">> \o Text(data.bedrooms) \o <<" bedroom", IF data.bedrooms.num > 1 THEN "s" ELSE "", ", ">>
    \o Text(data.bathrooms) \o <<" bathroom", IF data.bathrooms.num > 1 THEN "s" ELSE "">>
    \o (IF Falsy(data.size) THEN <<>> ELSE <<"- ">> \o Text(data.size) \o <<" square feet">>)
    \o <<"- Located in ">> \o Text(data.location)
    \o <<"- Price: $">> \o Text(data.price)
    \o <<"- Property type: ">> \o Text(data.propertyType)
    \o (IF HasAmenities(data) THEN <<"- Key amenities: ">> \o data.amenities.arr ELSE <<>>)

\* generateFallbackDescription: the template description.
GenerateFallbackDescription(data) ==
    <<"Discover this exceptional ">> \o Text(data.bedrooms) \o <<"-bedroom, ">>
    \o Text(data.bathrooms) \o <<"-bathroom ">> \o Text(data.propertyType)
    \o (IF Falsy(data.size) THEN <<>> ELSE <<"spanning ">> \o Text(data.size) \o <<" square feet ">>)
    \o <<"in the heart of ">> \o Text(data.location)
    \o <<IF data.size.type = "number" /\ data.size.num > 2500 THEN "This spacious residence"
         ELSE IF data.size.type = "number" /\ data.size.num > 1500 THEN "Thoughtfully designed spaces"
         ELSE "Efficiently designed">>
    \o (IF HasAmenities(data)
        THEN <<"Notable features include ">> \o SubSeq(data.amenities.arr, 1, 3)
        ELSE <<>>)
    \o <<"Ideally situated in ">> \o Text(data.location)
    \o <<IF data.price.num < 300000 THEN "Priced at $"
         ELSE IF data.price.num < 750000 THEN "At $"
         ELSE "This premium property is priced at $">>
    \o Text(data.price)

\* What the language model's API can come back with: a rejected call, a
\* completion without choices, a choice without content, a blank content,
\* a text between blanks.
Completions ==
    {[kind |-> "throws", content |-> <<>>],
     [kind |-> "no choices", content |-> <<>>],
     [kind |-> "null content", content |-> <<>>],
     [kind |-> "content", content |-> <<" ">>],
     [kind |-> "content", content |-> <<" ", "A", " ", "h", "o", "m", "e", ".", " ">>]}

\* completion.choices[0].message.content.trim() throws a TypeError when
\* there is no first choice or its content is null.
CompletionThrows(c) == c.kind \in {"throws", "no choices", "null content"}

MktJson(status, success, error, message, description) ==
    [status |-> status, success |-> success, error |-> error, message |-> message,
     description |-> description]

\* The three validations of the handler, in order.
MktRejection(b) ==
    IF Falsy(b.bedrooms) \/ Falsy(b.bathrooms) \/ Falsy(b.location) \/ Falsy(b.price)
    THEN <<MktJson(400, <<>>, "Missing required fields", <<>>, <<>>)>>
    ELSE IF b.bedrooms.type # "number" \/ b.bathrooms.type # "number" \/ b.price.type # "number"
    THEN <<MktJson(400, <<>>, "Invalid data types",
                   <<"bedrooms, bathrooms, and price must be numbers">>, <<>>)>>
    ELSE IF b.bedrooms.num < 1 \/ b.bathrooms.num < 1 \/ b.price.num < 1
    THEN <<MktJson(400, <<>>, "Invalid values",
                   <<"bedrooms, bathrooms, and price must be positive numbers">>, <<>>)>>
    ELSE <<>>

\* POST /api/generate-description: the validations.
MktValidate ==
    /\ mktPc = "validate"
    /\ IF MktRejection(reqBody) # <<>>
       THEN /\ mktResponses' = Append(mktResponses, MktRejection(reqBody)[1])
            /\ mktPc' = "done"
       ELSE /\ mktPc' = "generateDescription"
            /\ UNCHANGED mktResponses
    /\ UNCHANGED <<reqBody, prompt, completion, mktThrown>>
    /\ UNCHANGED <<csvVars, apiVars, twoVars>>

\* generateDescription: the prompt is built before the try block, so an
\* error in createMarketingPrompt leaves generateDescription.  amenities.join
\* exists on arrays only: on a non-empty string the call throws a TypeError.
MktPrompt ==
    /\ mktPc = "generateDescription"
    /\ IF /\ HasAmenities(MktPropertyData(reqBody))
          /\ MktPropertyData(reqBody).amenities.type # "array"
       THEN /\ mktThrown' = <<"amenities.join is not a function">>
            /\ mktPc' = "catch"
            /\ UNCHANGED prompt
       ELSE /\ prompt' = CreateMarketingPrompt(MktPropertyData(reqBody))
            /\ mktPc' = "groq"
            /\ UNCHANGED mktThrown
    /\ UNCHANGED <<reqBody, completion, mktResponses>>
    /\ UNCHANGED <<csvVars, apiVars, twoVars>>

\* await groq.chat.completions.create(...)
MktGroq ==
    /\ mktPc = "groq"
    /\ completion' \in {<<c>> : c \in Completions}
    /\ mktPc' = "completed"
    /\ UNCHANGED <<reqBody, prompt, mktThrown, mktResponses>>
    /\ UNCHANGED <<csvVars, apiVars, twoVars>>

\* generateDescription returns the trimmed content, or from its catch block
\* the template description.
\* res.json({ success: true, description, propertyData, generatedAt })
MktRespond ==
    /\ mktPc = "completed"
    /\ mktResponses' = Append(mktResponses,
          MktJson(200, <<TRUE>>, "", <<>>,
                  <<IF CompletionThrows(completion[1])
                    THEN GenerateFallbackDescription(MktPropertyData(reqBody))
                    ELSE Trim(completion[1].content)>>))
    /\ mktPc' = "done"
    /\ UNCHANGED <<reqBody, prompt, completion, mktThrown>>
    /\ UNCHANGED <<csvVars, apiVars, twoVars>>

\* catch (error): 500 { error: 'Internal server error', message: error.message }
MktCatch ==
    /\ mktPc = "catch"
    /\ mktResponses' = Append(mktResponses,
          MktJson(500, <<>>, "Internal server error", <<mktThrown[1]>>, <<>>))
    /\ mktPc' = "done"
    /\ UNCHANGED <<reqBody, prompt, completion, mktThrown>>
    /\ UNCHANGED <<csvVars, apiVars, twoVars>>

\* The bodies of the requests: the required fields missing, of another
\* type, below one and valid; size in each range of the template or
\* missing; amenities missing, an array and a string.
MktBodies ==
    {[bedrooms |-> bd, bathrooms |-> Num(2), size |-> sz, location |-> loc,
      price |-> pr, propertyType |-> pt, amenities |-> am] :
        bd \in {Undefined, Num(3), Str("3")},
        sz \in {Undefined, Num(950), Num(1800), Num(4100)},
        loc \in {Str(""), Str("Austin, TX")},
        pr \in {Num(0 - 1), Num(285000), Num(2750000)},
        pt \in {Undefined, Str("villa")},
        am \in {Undefined, Arr(<<"pool", "garage", "gym", "balcony">>), Str("pool")}}

MktInitWith(bodies) ==
    /\ reqBody \in bodies
    /\ mktPc = "validate"
    /\ prompt = <<>>
    /\ completion = <<>>
    /\ mktThrown = <<>>
    /\ mktResponses = <<>>

NextMkt ==
    \/ MktValidate
    \/ MktPrompt
    \/ MktGroq
    \/ MktRespond
    \/ MktCatch

\* ====================================================== concurrent imports
\* Two requests to POST /import-properties in one process.  Each call of the
\* handler and of processCSVStream has its own results, errors and rowIndex
\* (server.js:67-69); Property.insertMany is the one thing both use.  The
\* intake and the clock are left out: both files are CSV files with a
\* header line, and processingTimeMs is measured time, which no run fixes.
\* A bound on the data rows of each of the two files.
MaxTwoRows == 2

\* The data rows a file of import i is made of: a valid row and a row with a
\* bad price, with titles that name the import.
TwoRows(i) ==
    {<<<<IF i = 1 THEN "A" ELSE "B">>, <<"5">>, <<"p">>>>,
     <<<<IF i = 1 THEN "a" ELSE "b">>, <<"-", "5">>, <<"p">>>>}

\* The two requests on entering processCSVStream, nothing read yet.
TwoInitWith(files1, files2) ==
    /\ imports \in {[i \in 1..2 |->
                       [file |-> files[i], pc |-> "stream", unread |-> files[i], first |-> TRUE,
                        headers |-> <<>>, rowIndex |-> 0, results |-> <<>>, errors |-> <<>>,
                        response |-> <<>>]] : files \in files1 \X files2}
    /\ gateway = <<>>

\* The decoder of import i reads the header line.
ImportHeaders(i) ==
    /\ imports[i].pc = "stream"
    /\ imports[i].unread # <<>>
    /\ imports[i].first
    /\ imports' = [imports EXCEPT ![i].headers = ParseLine(NextLine(imports[i].unread).line),
                                  ![i].unread = NextLine(imports[i].unread).rest,
                                  ![i].first = FALSE]
    /\ UNCHANGED gateway

\* Mutant: results is one array of the module, shared by the requests.
ImportData_SharedResults(i) ==
    /\ imports[i].pc = "stream"
    /\ imports[i].unread # <<>>
    /\ ~imports[i].first
    /\ \E data \in {WriteRow(imports[i].headers, ParseLine(NextLine(imports[i].unread).line))} :
       \E validation \in {Validate(data)} :
          imports' =
             IF validation.error
             THEN [imports EXCEPT ![i].rowIndex = @ + 1,
                                  ![i].unread = NextLine(imports[i].unread).rest,
                                  ![i].errors = Append(@, RowError(imports[i].rowIndex + 1, data, validation))]
             ELSE [[imports EXCEPT ![i].rowIndex = @ + 1,
                                   ![i].unread = NextLine(imports[i].unread).rest]
                      EXCEPT ![1].results = Append(@, validation.value)]
    /\ UNCHANGED gateway

\* A 'data' event of import i: its row counted, validated and filed.
ImportData(i) ==
    /\ imports[i].pc = "stream"
    /\ imports[i].unread # <<>>
    /\ ~imports[i].first
    /\ \E data \in {WriteRow(imports[i].headers, ParseLine(NextLine(imports[i].unread).line))} :
       \E validation \in {Validate(data)} :
          imports' =
             IF validation.error
             THEN [imports EXCEPT ![i].rowIndex = @ + 1,
                                  ![i].unread = NextLine(imports[i].unread).rest,
                                  ![i].errors = Append(@, RowError(imports[i].rowIndex + 1, data, validation))]
             ELSE [imports EXCEPT ![i].rowIndex = @ + 1,
                                  ![i].unread = NextLine(imports[i].unread).rest,
                                  ![i].results = Append(@, validation.value)]
    /\ UNCHANGED gateway

\* 'end' of import i: its promise resolves and its handler resumes, with the
\* 400 when no row was valid and else with the insertMany call.
ImportEnd(i) ==
    /\ imports[i].pc = "stream"
    /\ imports[i].unread = <<>>
    /\ IF NoValidProperties(imports[i].results)
       THEN /\ imports' = [imports EXCEPT ![i].pc = "done",
                                         ![i].response = <<NoValidResponse(imports[i].errors)>>]
            /\ UNCHANGED gateway
       ELSE /\ imports' = [imports EXCEPT ![i].pc = "insertMany"]
            /\ gateway' = Append(gateway,
                                 [import |-> i,
                                  properties |-> PropertiesWithBroker(imports[i].results, BrokerId, 0)])

\* The insertMany call of import i returns, with all the records of the call
\* or with fewer, and the handler responds.
ImportReturns(i) ==
    /\ imports[i].pc = "insertMany"
    /\ \E k \in 1..Len(gateway) :
          /\ gateway[k].import = i
          /\ \E n \in {0, Len(gateway[k].properties) - 1, Len(gateway[k].properties)} :
                imports' = [imports EXCEPT
                   ![i].pc = "done",
                   ![i].response =
                      <<SuccessResponse(imports[i].results, imports[i].errors,
                                        SubSeq(InsertMany(gateway[k].properties, 0), 1, n), 0)>>]
    /\ UNCHANGED gateway

\* The insertMany call of import i rejects: the catch block responds.
ImportThrows(i) ==
    /\ imports[i].pc = "insertMany"
    /\ imports' = [imports EXCEPT ![i].pc = "done", ![i].response = <<InternalErrorResponse>>]
    /\ UNCHANGED gateway

\* Any step of either import: the event loop interleaves them.
NextTwo ==
    \E i \in 1..2 :
        /\ \/ ImportHeaders(i)
           \/ ImportData(i)
           \/ ImportEnd(i)
           \/ ImportReturns(i)
           \/ ImportThrows(i)
        /\ UNCHANGED <<csvVars, apiVars, mktVars>>

InitWith(uploads) ==
    /\ upload \in uploads
    /\ reqFile = <<>>
    /\ pc = "multer"
    /\ now = 0
    /\ startTime = 0
    /\ unread = <<>>
    /\ first = TRUE
    /\ headers = <<>>
    /\ rowIndex = 0
    /\ results = <<>>
    /\ errors = <<>>
    /\ decoded = <<>>
    /\ logged = <<>>
    /\ settled = <<>>
    /\ pending = <<>>
    /\ calls = <<>>
    /\ inserted = <<>>
    /\ thrown = <<>>
    /\ responses = <<>>

Next ==
    \/ MulterNoFile
    \/ MulterFileFilter
    \/ MulterFileSize
    \/ MulterAccept
    \/ ErrorMiddleware
    \/ RejectNoFile
    \/ RejectEmptyFile
    \/ StartStream
    \/ OnEnd
    \/ OnError
    \/ OnHeaders
    \/ OnData
    \/ OnChunk
    \/ RejectNoValid
    \/ CallInsertMany
    \/ InsertManyReturns
    \/ InsertManyReturnsFewer
    \/ InsertManyThrows
    \/ Respond
    \/ Catch

\* The marketing generator at rest: a request that validation turns away.
MktAtRest ==
    MktInitWith({[bedrooms |-> Undefined, bathrooms |-> Undefined, size |-> Undefined,
                  location |-> Undefined, price |-> Undefined, propertyType |-> Undefined,
                  amenities |-> Undefined]})

\* No concurrent imports: two empty files.
TwoAtRest == TwoInitWith({<<>>}, {<<>>})

\* The import endpoint is modelled with the property API at rest.
Init == InitWith(Uploads) /\ ApiInitWith({[reachable |-> TRUE, projects |-> TRUE, properties |-> TRUE, seeded |-> TRUE]}) /\ MktAtRest /\ TwoAtRest

InitBig == InitWith(BigUploads) /\ ApiInitWith({[reachable |-> TRUE, projects |-> TRUE, properties |-> TRUE, seeded |-> TRUE]}) /\ MktAtRest /\ TwoAtRest

\* A bound on the data rows of the files of SpecFair.
MaxFairRows == 2

\* The rows of those files: a valid one, one with a bad price, one with a
\* bad title and a bad price.
FairRows == {<<<<"V">>, <<"5">>, <<"p">>>>,
             <<<<"O">>, <<"-", "5">>, <<"p">>>>,
             <<<<>>, <<"0">>, <<"p">>>>}

\* The requests of SpecFair: the edge cases and the files of several rows.
FairUploads ==
    EdgeUploads
    \cup {CsvFile(FileText(Header3, rows)) : rows \in UNION {[1..n -> FairRows] : n \in 0..MaxFairRows}}

InitFair == InitWith(FairUploads) /\ ApiInitWith({[reachable |-> TRUE, projects |-> TRUE, properties |-> TRUE, seeded |-> TRUE]}) /\ MktAtRest /\ TwoAtRest

\* The property API is modelled with the import endpoint at rest.
InitApi == InitWith({[attached |-> FALSE, mimetype |-> "", size |-> 0, buffer |-> <<>>]}) /\ ApiInitWith(DbModes) /\ MktAtRest /\ TwoAtRest

Spec == Init /\ [][Next]_vars

\* The import endpoint on the event loop: a middleware or handler step that
\* is ready to run is run, the decoder works through its input to the end
\* (no failure of it is required), and an awaited insertMany call returns
\* or fails.
Intake == MulterNoFile \/ MulterFileFilter \/ MulterFileSize \/ MulterAccept \/ ErrorMiddleware

Handler ==
    \/ RejectNoFile
    \/ RejectEmptyFile
    \/ StartStream
    \/ RejectNoValid
    \/ CallInsertMany
    \/ Respond
    \/ Catch

Decoder == OnEnd \/ OnHeaders \/ OnData \/ OnChunk

Gateway == InsertManyReturns \/ InsertManyReturnsFewer \/ InsertManyThrows

SpecFair ==
    /\ InitFair
    /\ [][Next]_vars
    /\ WF_vars(Intake)
    /\ WF_vars(Handler)
    /\ WF_vars(Decoder)
    /\ WF_vars(Gateway)

\* The same program on a file of more than a thousand rows.
SpecBig == InitBig /\ [][Next]_vars

\* The property API of task-3.
SpecApi == InitApi /\ [][NextApi]_vars

\* The marketing generator of task-4.
InitMkt ==
    /\ InitWith({[attached |-> FALSE, mimetype |-> "", size |-> 0, buffer |-> <<>>]})
    /\ ApiInitWith({[reachable |-> TRUE, projects |-> TRUE, properties |-> TRUE, seeded |-> TRUE]})
    /\ MktInitWith(MktBodies)
    /\ TwoAtRest

SpecMkt == InitMkt /\ [][NextMkt]_vars

\* Two imports in one process.
InitTwo ==
    /\ InitWith({[attached |-> FALSE, mimetype |-> "", size |-> 0, buffer |-> <<>>]})
    /\ ApiInitWith({[reachable |-> TRUE, projects |-> TRUE, properties |-> TRUE, seeded |-> TRUE]})
    /\ MktAtRest
    /\ TwoInitWith({FileText(Header3, rows) : rows \in [1..MaxTwoRows -> TwoRows(1)]},
                   {FileText(Header3, rows) : rows \in [1..MaxTwoRows -> TwoRows(2)]})

SpecTwo == InitTwo /\ [][NextTwo]_vars

\* ================================================================= claims
\* The rules of the schema, stated per field on a decoded record.
TitleRuleHolds(d) ==
    /\ Present(d, "title")
    /\ Len(Trim(Field(d, "title"))) >= 1
    /\ Len(Trim(Field(d, "title"))) <= 200

PriceParses(d) == Present(d, "price") /\ IsNumeric(Field(d, "price"))

\* The price parses to zero or to a negative number.
PriceNotPositive(d) ==
    /\ PriceParses(d)
    /\ LET n == ParseFloat(Field(d, "price"))
       IN  n.neg \/ (n.whole = 0 /\ n.frac = <<>>)

PriceRuleHolds(d) == PriceParses(d) /\ ~PriceNotPositive(d)

ProjectIdRuleHolds(d) ==
    /\ Present(d, "projectId")
    /\ Len(Trim(Field(d, "projectId"))) >= 1

AllRulesHold(d) == TitleRuleHolds(d) /\ PriceRuleHolds(d) /\ ProjectIdRuleHolds(d)

RuleTypes(key) ==
    CASE key = "title" -> {"any.required", "string.empty", "string.min", "string.max"}
      [] key = "price" -> {"any.required", "number.base", "number.positive"}
      [] key = "projectId" -> {"any.required", "string.empty", "string.min"}

\* The messages that cite a rule of one field.
MessagesOf(key) == {Message(key, t) : t \in RuleTypes(key)}

\* The error entries filed for data row r.
ErrorsOfRow(r) == {k \in 1..Len(errors) : errors[k].row = r}

\* The responses that carry a summary.
WithSummary == {k \in 1..Len(responses) : responses[k].body.summary # <<>>}

\* The decoder has failed before the end of the file.
DecodeFailed == thrown # <<>> /\ thrown[1].message = "Row exceeds the maximum size"

\* The decoder has run to the end of the file.
StreamEnded == /\ ~DecodeFailed
               /\ \/ pc \in {"resolved", "insertMany", "respond", "catch"}
                  \/ (pc = "done" /\ ~first)

\* The awaited insertMany call has failed.
GatewayFailed == thrown # <<>> /\ calls # <<>>

\* A three-column record as the decoder emits it.
Record3(t, p, j) == WriteRow(Header3, <<t, p, j>>)

\* The number of lines of a text, the last one with or without its newline.
LineCount(text) ==
    Cardinality({i \in 1..Len(text) : text[i] = "\n"})
    + (IF text # <<>> /\ text[Len(text)] # "\n" THEN 1 ELSE 0)

\* ---- C1
\* C1 as stated: every summary returned satisfies
\* totalProcessed = successful + failed, whatever insertMany returns.
C1_SummaryAddsUp ==
    \A k \in WithSummary :
        LET sm == responses[k].body.summary[1]
        IN  sm.totalProcessed = sm.successful + sm.failed

\* C1 amended: every summary returned satisfies totalProcessed =
\* successful + failed + (records given to insertMany - records it
\* returned); the two sides of C1 agree exactly when insertMany returns as
\* many records as it was given, as Property.insertMany does.
C1_SummaryAddsUpToShortfall ==
    \A k \in WithSummary :
        LET sm == responses[k].body.summary[1]
        IN  /\ sm.totalProcessed = sm.successful + sm.failed + (Len(pending) - Len(inserted))
            /\ sm.totalProcessed = rowIndex
            /\ (sm.totalProcessed = sm.successful + sm.failed) <=> (Len(inserted) = Len(pending))

C1_Witness ==
    \E k \in WithSummary :
        /\ responses[k].body.summary[1].failed > 0
        /\ responses[k].body.summary[1].successful > 1
        /\ Len(inserted) = Len(pending)

\* ---- C2
\* The sizes of the insertMany calls C2 expects for n valid rows and a
\* threshold of 1000: ceil(n / 1000) calls, all of 1000 but the last.
C2_ExpectedSizes(n) ==
    LET count == (n + 999) \div 1000
    IN  [i \in 1..count |-> IF i < count THEN 1000 ELSE n - 1000 * (count - 1)]

C3_RowNumbers ==
    /\ rowIndex = Len(decoded)
    /\ \A k \in 1..Len(errors) :
          /\ errors[k].row \in 1..rowIndex
          /\ errors[k].data = decoded[errors[k].row]
          /\ k > 1 => errors[k - 1].row < errors[k].row
    /\ StreamEnded => rowIndex = LineCount(upload.buffer) - 1

C3_Witness ==
    /\ pc = "done"
    /\ Len(errors) = 2
    /\ errors[1].row = 2
    /\ errors[2].row = 3

\* ---- C4
\* C4: insertMany is never called with an empty batch, and is not called
\* at all when no row is valid once the file is read (a file of a header
\* line alone included).
C4_NoEmptyBatch ==
    /\ \A k \in 1..Len(calls) : Len(calls[k]) > 0
    /\ (StreamEnded /\ Len(results) = 0) => calls = <<>>

C4_Witness ==
    /\ pc = "done"
    /\ StreamEnded
    /\ rowIndex = 0
    /\ Len(upload.buffer) > 0
    /\ calls = <<>>
    /\ responses # <<>>

\* ---- C5
\* The import is over and every data row of its file failed validation.
C5_AllRowsInvalid == pc = "done" /\ StreamEnded /\ rowIndex > 0 /\ Len(results) = 0

\* C5 as stated: that import ends in the no-valid-records rejection, which
\* reports successful: 0, failed: the number of data rows, and one error
\* per data row.
C5_RejectionReportsCounts ==
    C5_AllRowsInvalid =>
        /\ Len(responses) = 1
        /\ responses[1].body.error = "No valid properties found in CSV"
        /\ responses[1].body.summary # <<>>
        /\ responses[1].body.summary[1].successful = 0
        /\ responses[1].body.summary[1].failed = rowIndex
        /\ responses[1].body.validationErrors = <<errors>>
        /\ Len(errors) = rowIndex

\* C5 amended: that import ends in the no-valid-records rejection (400)
\* without any insertMany call; the rejection carries no summary, hence
\* no successful or failed count, and carries validationErrors with one
\* entry per data row.
C5_RejectionCarriesErrorsOnly ==
    C5_AllRowsInvalid =>
        /\ Len(responses) = 1
        /\ responses[1].status = 400
        /\ responses[1].body.success = FALSE
        /\ responses[1].body.error = "No valid properties found in CSV"
        /\ responses[1].body.summary = <<>>
        /\ responses[1].body.validationErrors = <<errors>>
        /\ Len(errors) = rowIndex
        /\ \A r \in 1..rowIndex : Cardinality(ErrorsOfRow(r)) = 1
        /\ calls = <<>>

C5_Witness == C5_AllRowsInvalid /\ rowIndex >= 2

\* ---- C6
\* The request carries a text/csv file of zero bytes.
C6_ZeroBytes == upload.attached /\ upload.mimetype = "text/csv" /\ Len(upload.buffer) = 0
                /\ upload.size = 0

\* C6: a zero-byte upload is rejected with 'Empty CSV file provided'
\* before the decoder is started: the request never reaches the stream, no
\* row is decoded, insertMany is not called, and the response has no summary.
C6_EmptyRejectedBeforeDecoding ==
    C6_ZeroBytes =>
        /\ pc \in {"multer", "handler", "done"}
        /\ rowIndex = 0 /\ decoded = <<>> /\ results = <<>> /\ errors = <<>>
        /\ first /\ headers = <<>>
        /\ calls = <<>>
        /\ pc = "done" =>
              /\ Len(responses) = 1
              /\ responses[1].status = 400
              /\ responses[1].body.error = "Empty CSV file provided"
              /\ responses[1].body.summary = <<>>
        /\ pc # "done" => responses = <<>>

C6_Witness == C6_ZeroBytes /\ pc = "done" /\ Len(responses) = 1

\* ---- C7
\* C7 as stated: every decoded record whose price is a number <= 0 has an
\* error entry citing the price rule, whatever its other fields are.
C7_NonPositivePriceCitesPrice ==
    \A r \in 1..Len(decoded) :
        PriceNotPositive(decoded[r]) =>
            \E k \in ErrorsOfRow(r) : errors[k].error \in MessagesOf("price")

\* C7 amended: every decoded record whose price is a number <= 0 has
\* exactly one error entry; it cites the price rule when the title rule
\* holds, whatever the projectId is, and cites the title otherwise.
C7_NonPositivePriceRejected ==
    \A r \in 1..Len(decoded) :
        PriceNotPositive(decoded[r]) =>
            /\ Cardinality(ErrorsOfRow(r)) = 1
            /\ \A k \in ErrorsOfRow(r) :
                  IF TitleRuleHolds(decoded[r])
                  THEN errors[k].error = "\"price\" must be a positive number"
                  ELSE errors[k].error \in MessagesOf("title")

C7_Witness ==
    \E r \in 1..Len(decoded) :
        /\ PriceNotPositive(decoded[r])
        /\ TitleRuleHolds(decoded[r])
        /\ ~ProjectIdRuleHolds(decoded[r])
        /\ ErrorsOfRow(r) # {}

\* ---- C8
\* The first field, in the order title, price, projectId, whose rule fails.
C8_FirstFailing(d) ==
    IF ~TitleRuleHolds(d) THEN "title"
    ELSE IF ~PriceRuleHolds(d) THEN "price"
    ELSE "projectId"

\* C8: an error entry carries one message, that of the first failing field
\* in the order title, price, projectId, also when later fields fail too
\* and whatever the order of the columns in the file.
C8_FirstFailingFieldWins ==
    \A k \in 1..Len(errors) :
        /\ ~AllRulesHold(errors[k].data)
        /\ \E failing \in {C8_FirstFailing(errors[k].data)} :
              /\ errors[k].error \in MessagesOf(failing)
              /\ \A key \in {"title", "price", "projectId"} :
                    key # failing => errors[k].error \notin MessagesOf(key)

C8_Witness ==
    \E k \in 1..Len(errors) :
        /\ ~TitleRuleHolds(errors[k].data)
        /\ ~PriceRuleHolds(errors[k].data)
        /\ ~ProjectIdRuleHolds(errors[k].data)

\* ---- C9
\* C9: a decoded row is accepted (filed under results, converted) exactly
\* when the three rules hold and gets an error entry otherwise; of the
\* three example rows the first is rejected on title, the second on price,
\* the third accepted.
C9_AcceptsExactlyValidRows ==
    /\ \E valid \in {{r \in 1..Len(decoded) : AllRulesHold(decoded[r])}} :
          /\ \A r \in 1..Len(decoded) : r \in valid <=> ErrorsOfRow(r) = {}
          /\ Len(results) = Cardinality(valid)
    /\ Len(results) + Len(errors) = Len(decoded)
    /\ \E example \in {<<Record3(<<>>, <<"1", "0", "0">>, <<"p", "1">>),
                          Record3(<<"O", "k">>, <<"-", "5">>, <<"p", "1">>),
                          Record3(<<"V", "i", "l", "l", "a">>, <<"5", "0", "0", "0", "0", "0">>, <<"p", "1">>)>>} :
       \A r \in 1..Len(decoded) :
          /\ decoded[r] = example[1] =>
                \E k \in ErrorsOfRow(r) : errors[k].error \in MessagesOf("title")
          /\ decoded[r] = example[2] =>
                \E k \in ErrorsOfRow(r) : errors[k].error \in MessagesOf("price")
          /\ decoded[r] = example[3] =>
                /\ ErrorsOfRow(r) = {}
                /\ \E i \in 1..Len(results) :
                      /\ results[i].title = <<"V", "i", "l", "l", "a">>
                      /\ results[i].price = [neg |-> FALSE, whole |-> 500000, frac |-> <<>>]
                      /\ results[i].projectId = <<"p", "1">>

C9_Witness ==
    /\ pc = "done"
    /\ Len(decoded) = 3
    /\ Len(Trim(Field(decoded[1], "title"))) = 200
    /\ Len(Field(decoded[1], "title")) = 202
    /\ AllRulesHold(decoded[1])
    /\ decoded[2] = Record3(<<"V", "i", "l", "l", "a">>, <<"5", "0", "0", "0", "0", "0">>, <<"p", "1">>)
    /\ decoded[3] = Record3(<<"O", "k">>, <<"-", "5">>, <<"p", "1">>)
    /\ Len(results) = 2

\* ---- C10
\* C10: a failure of the insertMany call ends the import: the call is not
\* made again, no summary is returned, and the one response is the
\* internal-error response.
C10_GatewayFailureIsFatal ==
    GatewayFailed =>
        /\ pc \in {"catch", "done"}
        /\ Len(calls) = 1
        /\ pc = "catch" => responses = <<>>
        /\ pc = "done" =>
              /\ Len(responses) = 1
              /\ responses[1].status = 500
              /\ responses[1].body.success = FALSE
              /\ responses[1].body.error = "Internal server error during import"
              /\ responses[1].body.summary = <<>>
              /\ responses[1].body.validationErrors = <<>>

C10_Witness == GatewayFailed /\ pc = "done" /\ Len(errors) > 0 /\ Len(results) > 1

\* ---- C11
\* C11: once the decoder has failed, at whatever point of the stream, no
\* insertMany call has been made or is made for the import, also when rows
\* were decoded and validated before the failure, and the one response of
\* the import is the internal-failure response (500).
C11_DecodeFailureAbortsBeforePersistence ==
    DecodeFailed =>
        /\ calls = <<>>
        /\ pending = <<>>
        /\ inserted = <<>>
        /\ pc \in {"catch", "done"}
        /\ pc = "catch" => responses = <<>>
        /\ pc = "done" =>
              /\ Len(responses) = 1
              /\ responses[1].status = 500
              /\ ~responses[1].body.success
              /\ responses[1].body.error = "Internal server error during import"
              /\ responses[1].body.summary = <<>>
              /\ responses[1].body.validationErrors = <<>>

\* The decoder failed after a valid and an invalid row had been filed.
C11_Witness ==
    DecodeFailed /\ pc = "done" /\ Len(results) > 0 /\ Len(errors) > 0 /\ unread # <<>>

\* ---- C12
\* The data rows of the file that break a rule of the schema.
InvalidRows == {r \in 1..Len(decoded) : ~AllRulesHold(decoded[r])}

\* C12: when the decoder has run to the end of the file, at least one data
\* row is valid and the insertMany call has not failed, the import is
\* answered once, with the success summary (200), whatever the number of
\* invalid rows; failed counts the invalid rows, and validationErrors holds
\* exactly one entry for each of them (and is absent when there is none).
C12_ValidationFailuresNeverAbort ==
    (pc = "done" /\ StreamEnded /\ ~GatewayFailed) =>
        \E invalid \in {InvalidRows} :
            invalid # 1..Len(decoded) =>
                /\ Len(responses) = 1
                /\ responses[1].status = 200
                /\ responses[1].body.success
                /\ Len(responses[1].body.summary) = 1
                /\ responses[1].body.summary[1].failed = Cardinality(invalid)
                /\ responses[1].body.summary[1].totalProcessed = Len(decoded)
                /\ IF invalid = {}
                   THEN responses[1].body.validationErrors = <<>>
                   ELSE /\ Len(responses[1].body.validationErrors) = 1
                        /\ LET ve == responses[1].body.validationErrors[1]
                           IN  /\ Len(ve) = Cardinality(invalid)
                               /\ \A r \in invalid :
                                      Cardinality({k \in 1..Len(ve) : ve[k].row = r}) = 1

\* An import of one valid and two invalid rows has been answered with a summary.
C12_Witness ==
    /\ pc = "done"
    /\ StreamEnded
    /\ ~GatewayFailed
    /\ Cardinality(InvalidRows) = 2
    /\ Len(decoded) = 3
    /\ Len(responses) = 1
    /\ responses[1].status = 200

\* ---- C13
\* C13: no response of the import carries an empty validationErrors: the
\* property is either absent or holds at least one entry.
C13_ValidationErrorsNeverEmpty ==
    \A k \in 1..Len(responses) :
        responses[k].body.validationErrors # <<>> =>
            Len(responses[k].body.validationErrors[1]) > 0

\* ---- C14
\* The request breaks a rule of the intake: no file part, a file of another
\* content type than text/csv, a file over the size limit, an empty file.
IntakeViolation ==
    \/ ~upload.attached
    \/ upload.mimetype # "text/csv"
    \/ upload.size > 10 * 1024 * 1024
    \/ upload.size = 0

\* C14: a request that breaks a rule of the intake is answered once, with
\* a client error (4xx) and never with an internal error (5xx), and the
\* decoder, the validator and insertMany are never invoked for it.
C14_IntakeViolationsAreClientErrors ==
    IntakeViolation =>
        /\ first /\ rowIndex = 0 /\ decoded = <<>> /\ results = <<>> /\ errors = <<>>
        /\ calls = <<>>
        /\ pc \notin {"stream", "resolved", "insertMany", "respond", "catch"}
        /\ pc = "done" =>
              /\ Len(responses) = 1
              /\ responses[1].status \in 400..499

\* ---- C15
\* A decoded record without the columns the schema does not declare.
Declared(d) == [k \in DOMAIN d \cap {KeyChars("title"), KeyChars("price"), KeyChars("projectId")} |-> d[k]]

\* C15: a data row is accepted or rejected, with the same validated fields
\* or the same error, as the same row without its undeclared columns; and
\* no record given to insertMany carries a property other than title,
\* price, projectId, brokerId and createdAt.
C15_UnknownColumnsIgnored ==
    /\ \E plain \in {[r \in 1..Len(decoded) |-> Validate(Declared(decoded[r]))]} :
          LET Passes(r) == ~plain[r].error
          IN  \E passing \in {SelectSeq([r \in 1..Len(decoded) |-> r], Passes)} :
                 /\ \A r \in 1..Len(decoded) :
                       /\ (ErrorsOfRow(r) # {}) <=> plain[r].error
                       /\ \A k \in ErrorsOfRow(r) :
                             errors[k].error = plain[r].details[1].message
                 /\ results = [k \in 1..Len(passing) |-> plain[passing[k]].value]
    /\ \A c \in 1..Len(calls) : \A i \in 1..Len(calls[c]) :
          /\ DOMAIN calls[c][i] = {"title", "price", "projectId", "others", "brokerId", "createdAt"}
          /\ DOMAIN calls[c][i].others = {}

\* A file whose rows carry a column the schema does not declare, one row
\* valid and one invalid, has been imported: the valid one was submitted.
C15_Witness ==
    /\ pc = "done"
    /\ Len(decoded) = 2
    /\ \A r \in 1..2 : DOMAIN decoded[r] # DOMAIN Declared(decoded[r])
    /\ Len(calls) = 1
    /\ Len(calls[1]) = 1
    /\ Len(errors) = 1

\* ---- C16
\* Validation is the operator Validate of the record alone: that two
\* applications to one record agree is true of every operator and is not
\* a property of the states of the import.  What the import does with the
\* verdicts, row after row, is stated by C9, C12 and C15.

WithoutKey(r) == r.apiKey # <<"your-secret-api-key-here">>

\* C17: on every route of the property API a request without the
\* configured key is answered 401, and its handler is never entered.
C17_EveryRouteRequiresApiKey ==
    /\ \A k \in 1..Len(apiResponses) :
          WithoutKey(apiResponses[k].request) => apiResponses[k].status = 401
    /\ (request.route \in Routes /\ WithoutKey(request)) => ~ran

\* ---- C18
\* Fallback mode: the database answers, its tables do not exist, so every
\* query returns an error.
FallbackMode == db.reachable /\ ~db.projects /\ ~db.properties

\* An authorised POST /api/properties whose body passes the schema and
\* names one of the fallback projects proj_1..proj_4.
ValidCreation(r) ==
    /\ r.route = "POST /api/properties"
    /\ r.apiKey = <<"your-secret-api-key-here">>
    /\ LET b == r.body[1]
       IN  /\ DOMAIN b = {"title", "size", "price", "handoverDate", "projectId"}
           /\ Len(Trim(b.title)) \in 1..200
           /\ b.size > 0
           /\ b.price > 0
           /\ b.handoverDate > clock
           /\ Trim(b.projectId) \in {<<"p", "r", "o", "j", "_", n>> : n \in {"1", "2", "3", "4"}}

\* C18: in fallback mode every such request is answered 201.
C18_FallbackCreationSucceeds ==
    FallbackMode =>
        \A k \in 1..Len(apiResponses) :
            ValidCreation(apiResponses[k].request) => apiResponses[k].status = 201

\* ---- C19
\* The answer to a creation that the server reports as stored in memory.
StoredInMemory(a) ==
    /\ a.request.route = "POST /api/properties"
    /\ a.status = 201
    /\ a.body.message = "Property created successfully (database not available, property stored in memory)"

\* C19: a property whose creation was answered 201 as stored in memory is
\* in the data of every later answer to GET /api/properties.
C19_StoredPropertyIsListed ==
    \A k \in 1..Len(apiResponses) : \A j \in (k + 1)..Len(apiResponses) :
        (StoredInMemory(apiResponses[k]) /\ apiResponses[j].request.route = "GET /api/properties"
            /\ apiResponses[j].status = 200) =>
            \E i \in 1..Len(apiResponses[j].body.data[1]) :
                apiResponses[j].body.data[1][i] = apiResponses[k].body.data[1]

\* ---- C21
\* C21: at every point of the stream each decoded data row has either one
\* error entry or one validated record, never both and never neither: the
\* rows without an error entry are, in file order, the rows of the
\* validated records, so rows decoded = valid count + error count; and a
\* summary's totalProcessed is that sum, the number of data lines of the file.
C21_EveryRowFiledOnce ==
    /\ \A r \in 1..Len(decoded) : Cardinality(ErrorsOfRow(r)) <= 1
    /\ \A k \in 1..Len(errors) : errors[k].row \in 1..Len(decoded)
    /\ LET NoEntry(r) == ErrorsOfRow(r) = {}
       IN  \E accepted \in {SelectSeq([r \in 1..Len(decoded) |-> r], NoEntry)} :
              /\ Len(results) = Len(accepted)
              /\ Len(accepted) + Len(errors) = Len(decoded)
              /\ \A k \in 1..Len(accepted) :
                    /\ Present(decoded[accepted[k]], "title")
                    /\ results[k].title = Trim(Field(decoded[accepted[k]], "title"))
    /\ rowIndex = Len(results) + Len(errors)
    /\ \A k \in WithSummary :
          /\ responses[k].body.summary[1].totalProcessed = Len(results) + Len(errors)
          /\ responses[k].body.summary[1].totalProcessed = LineCount(upload.buffer) - 1

\* A file of three data rows, one of them invalid, was answered with a summary.
C21_Witness ==
    /\ WithSummary # {}
    /\ Len(decoded) = 3
    /\ Len(results) = 2
    /\ Len(errors) = 1
    /\ errors[1].row = 2

\* ---- C22
\* C22: the summary's successful field is the number of stored records the
\* gateway returned for the import's insertMany call, not the number of
\* valid rows: it never exceeds the valid-row count and is smaller than it
\* exactly when the gateway returned fewer records than it was given.
C22_SuccessfulCountsStoredRecords ==
    \A k \in WithSummary :
        \E successful \in {responses[k].body.summary[1].successful} :
            /\ Len(calls) = 1
            /\ successful = Len(inserted)
            /\ successful <= Len(results)
            /\ (Len(inserted) < Len(calls[1])) <=> (successful < Len(results))
            /\ \A i \in 1..Len(inserted) : inserted[i].title = calls[1][i].title

\* The gateway was given two records and returned one: successful is 1.
C22_Witness ==
    /\ WithSummary # {}
    /\ Len(results) = 2
    /\ Len(inserted) = 1
    /\ responses[1].body.summary[1].successful = 1

\* ---- C23
\* C23: every record passed to insertMany is the validated record of a data
\* row that satisfies every rule, in file order and one per such row,
\* carrying the identity of the request's caller and a creation time taken
\* during the request; no invalid row is submitted and no record goes
\* without the caller identity.
C23_SubmittedRecordsAreValidAndOwned ==
    \A c \in 1..Len(calls) :
        LET Valid(r) == AllRulesHold(decoded[r])
        IN  \E valid \in {SelectSeq([r \in 1..Len(decoded) |-> r], Valid)} :
               /\ Len(calls[c]) = Len(valid)
               /\ \A i \in 1..Len(calls[c]) :
                     /\ calls[c][i].title = Trim(Field(decoded[valid[i]], "title"))
                     /\ calls[c][i].projectId = Trim(Field(decoded[valid[i]], "projectId"))
                     /\ calls[c][i].price = ParseFloat(Field(decoded[valid[i]], "price"))
                     /\ calls[c][i].brokerId = BrokerId
                     /\ calls[c][i].createdAt \in startTime..now

\* A call was made for a file with two valid rows around an invalid one.
C23_Witness ==
    /\ Len(calls) = 1
    /\ Len(calls[1]) = 2
    /\ Len(decoded) = 3
    /\ ~AllRulesHold(decoded[2])

\* ---- C25
\* The case of C25, an insertMany call failing after earlier calls of the
\* same import were accepted, needs a second call: the handler makes one
\* call per import (C2), so InsertManyThrows always fails the first and only
\* call and no state has an accepted batch before a failed one.  That the
\* failed call is not followed by another call is part of C10.

\* ---- C26
\* C26: when the decoder or the insertMany call has failed, the one response
\* is the same fixed body whatever the error was: neither the error's
\* message nor its stack is any part of the response, and both are in the
\* entry the catch block wrote to the log.
C26_FatalErrorIsOpaque ==
    ((DecodeFailed \/ GatewayFailed) /\ pc = "done") =>
        /\ responses = <<[status |-> 500,
                          body |-> [success |-> FALSE,
                                    error |-> "Internal server error during import",
                                    message |-> <<"Please try again or contact support if the problem persists">>,
                                    summary |-> <<>>,
                                    validationErrors |-> <<>>]]>>
        /\ \A part \in {responses[1].body.error}
                        \cup {responses[1].body.message[i] : i \in DOMAIN responses[1].body.message} :
              /\ part # thrown[1].message
              /\ part \notin {Stack(thrown[1])[i] : i \in DOMAIN Stack(thrown[1])}
        /\ responses[1].body.message # Stack(thrown[1])
        /\ \E k \in 1..Len(logged) :
              /\ logged[k].level = "error"
              /\ logged[k].meta.error = thrown[1].message
              /\ logged[k].meta.stack = Stack(thrown[1])

\* An import answered after the gateway's second error, which the catch
\* block logged after the two info entries of the import.
C26_Witness ==
    /\ GatewayFailed
    /\ pc = "done"
    /\ thrown[1].message = "E11000 duplicate key error"
    /\ Len(logged) = 3

\* ---- C27
\* The outcome categories of a response.
C27_Categories(response) ==
    {c \in {"accepted-with-all-valid", "accepted-with-some-errors", "rejected-no-file",
            "rejected-empty-file", "rejected-no-valid-rows", "internal-failure"} :
        CASE c = "accepted-with-all-valid" ->
                 /\ response.status = 200
                 /\ response.body.summary # <<>>
                 /\ response.body.validationErrors = <<>>
          [] c = "accepted-with-some-errors" ->
                 /\ response.status = 200
                 /\ response.body.summary # <<>>
                 /\ response.body.validationErrors # <<>>
          [] c = "rejected-no-file" ->
                 response.status = 400 /\ response.body.error = "No CSV file provided"
          [] c = "rejected-empty-file" ->
                 response.status = 400 /\ response.body.error = "Empty CSV file provided"
          [] c = "rejected-no-valid-rows" ->
                 response.status = 400 /\ response.body.error = "No valid properties found in CSV"
          [] c = "internal-failure" ->
                 response.status = 500 /\ response.body.error = "Internal server error during import"}

\* The category the course of the request calls for, when it has one.
C27_Expected ==
    IF ~upload.attached THEN {"rejected-no-file"}
    ELSE IF upload.mimetype # "text/csv" \/ upload.size > 10 * 1024 * 1024 THEN {}
    ELSE IF upload.size = 0 THEN {"rejected-empty-file"}
    ELSE IF thrown # <<>> THEN {"internal-failure"}
    ELSE IF results = <<>> THEN {"rejected-no-valid-rows"}
    ELSE IF errors = <<>> THEN {"accepted-with-all-valid"}
    ELSE {"accepted-with-some-errors"}

\* C27 as stated: every import request that has come to its end was
\* answered exactly once, with a response of exactly one of the six
\* categories.
C27_OneOfSixOutcomes ==
    pc = "done" =>
        /\ Len(responses) = 1
        /\ Cardinality(C27_Categories(responses[1])) = 1

\* C27 amended: every import request is answered exactly once, when it
\* ends, and nothing is done after the response.  A request that passes the
\* upload intake ends in exactly one of the six categories, the one its
\* course calls for; a rejection is sent without any insertMany call.  A
\* request the intake stops (a file over the size limit, a file of another
\* type) is answered by the error middleware with a response of none of
\* the six categories, and never reaches the handler.
C27_AnsweredOnceInItsCategory ==
    /\ pc # "done" => responses = <<>>
    /\ pc = "done" =>
          /\ Len(responses) = 1
          /\ ~ENABLED Next
          /\ C27_Categories(responses[1]) = C27_Expected
          /\ responses[1].status = 400 => calls = <<>> /\ inserted = <<>>
          /\ C27_Expected = {} =>
                /\ responses[1].status \in {400, 500}
                /\ reqFile = <<>> /\ decoded = <<>> /\ calls = <<>>
                /\ \A k \in 1..Len(logged) : logged[k].message # <<"Starting CSV import">>

\* A file over the size limit was answered.
C27_Witness ==
    /\ pc = "done"
    /\ upload.size > 10 * 1024 * 1024
    /\ Len(responses) = 1
    /\ responses[1].body.error = "File too large. Maximum size is 10MB"

\* ---- C28
\* C28: every import comes to its end: the request is answered, and when
\* the file was handed to processCSVStream its promise was settled exactly
\* once before that, by resolve when the decoder came to the end of the file
\* and by reject when it failed.
C28_ImportCompletes ==
    <>(/\ pc = "done"
       /\ Len(responses) = 1
       /\ unread = <<>> \/ DecodeFailed
       /\ IF \E k \in 1..Len(logged) : logged[k].message = <<"Starting CSV import">>
          THEN settled = IF DecodeFailed THEN <<"reject">> ELSE <<"resolve">>
          ELSE settled = <<>>)

\* An answered import of a valid and an invalid row whose promise was resolved, and the
\* gateway then failed.
C28_Witness ==
    /\ pc = "done"
    /\ Len(decoded) = 2
    /\ Len(errors) = 1
    /\ settled = <<"resolve">>
    /\ GatewayFailed

\* ---- C29
\* The names of a project list.
C29_Names(projects) == [i \in 1..Len(projects) |-> projects[i].name]

\* C29: GET /api/projects with the configured key is answered 200 with
\* success: true and a list of projects that is never empty: the rows of
\* the projects table in the order of their names when the query returns
\* some, and the four fallback projects when it returns no row, returns
\* an error or throws.
C29_ProjectsNeverFail ==
    \A k \in 1..Len(apiResponses) :
        (/\ apiResponses[k].request.route = "GET /api/projects"
         /\ apiResponses[k].request.apiKey = <<"your-secret-api-key-here">>) =>
            /\ apiResponses[k].status = 200
            /\ apiResponses[k].body.success = TRUE
            /\ apiResponses[k].body.error = ""
            /\ Len(apiResponses[k].body.data) = 1
            /\ Len(apiResponses[k].body.data[1]) = 4
            /\ C29_Names(apiResponses[k].body.data[1]) =
                  IF db.reachable /\ db.projects /\ db.seeded
                  THEN <<"Downtown Towers", "Garden View Apartments", "Marina Residences",
                         "Skyline Complex">>
                  ELSE <<"Downtown Towers", "Marina Residences", "Garden View Apartments",
                         "Skyline Complex">>
            /\ \A i \in 1..4 :
                  apiResponses[k].body.data[1][i].id \in
                      {<<"p", "r", "o", "j", "_", n>> : n \in {"1", "2", "3", "4"}}

\* The projects table exists and holds no row, and the list was asked for
\* with the configured key.
C29_Witness ==
    /\ db.reachable /\ db.projects /\ ~db.seeded
    /\ \E k \in 1..Len(apiResponses) :
          /\ apiResponses[k].request.route = "GET /api/projects"
          /\ apiResponses[k].request.apiKey = <<"your-secret-api-key-here">>



\* ------------------------------------------------------------------ C24
\* The valid buffer and the error sequence of an import that runs alone on
\* the file text, after its first n data rows.
RECURSIVE C24_Alone(_, _)
C24_Alone(text, n) ==
    IF n = 0
    THEN [results |-> <<>>, errors |-> <<>>]
    ELSE LET before == C24_Alone(text, n - 1)
             data == WriteRow(ParseLine(Lines(text)[1]), ParseLine(Lines(text)[n + 1]))
             validation == Validate(data)
         IN  IF validation.error
             THEN [results |-> before.results,
                   errors |-> Append(before.errors, RowError(n, data, validation))]
             ELSE [results |-> Append(before.results, validation.value),
                   errors |-> before.errors]

\* The responses an import that runs alone on the file text can end with:
\* the 400 when no row is valid, else the summary for each number of records
\* the gateway returns, or the 500 when the gateway call fails.
C24_AloneResponses(text) ==
    LET alone == C24_Alone(text, LineCount(text) - 1)
        batch == InsertMany(PropertiesWithBroker(alone.results, BrokerId, 0), 0)
    IN  IF alone.results = <<>>
        THEN {NoValidResponse(alone.errors)}
        ELSE {SuccessResponse(alone.results, alone.errors, SubSeq(batch, 1, n), 0) :
                  n \in 0..Len(batch)}
             \cup {InternalErrorResponse}

\* The titles of the data rows of a file text.
C24_TitlesOf(text) ==
    {ParseLine(Lines(text)[k])[1] : k \in 2..LineCount(text)}

\* C24: under any interleaving of the row events and gateway calls of two
\* imports, the row counter, the valid buffer and the error sequence of each
\* import are those of a run alone on its own file after as many rows, its
\* gateway calls are at most one and carry the valid rows of its own file,
\* its response is one a run alone ends with, and no row of the other
\* import is in its buffer, its errors or its batch.
C24_ConcurrentImportsIsolated ==
    \A i \in 1..2 :
        LET import == imports[i]
            alone == C24_Alone(import.file, import.rowIndex)
            whole == C24_Alone(import.file, LineCount(import.file) - 1)
            own == {k \in 1..Len(gateway) : gateway[k].import = i}
        IN  /\ import.rowIndex = (LineCount(import.file) - 1) - LineCount(import.unread)
                                  + (IF import.first THEN 1 ELSE 0)
            /\ import.results = alone.results
            /\ import.errors = alone.errors
            /\ Cardinality(own) <= 1
            /\ \A k \in own :
                   gateway[k].properties = PropertiesWithBroker(whole.results, BrokerId, 0)
            /\ import.response # <<>> => import.response[1] \in C24_AloneResponses(import.file)
            /\ \A k \in 1..Len(import.results) :
                   /\ import.results[k].title \in {Trim(t) : t \in C24_TitlesOf(import.file)}
                   /\ import.results[k].title \notin {Trim(t) : t \in C24_TitlesOf(imports[3 - i].file)}
            /\ \A k \in 1..Len(import.errors) :
                   import.errors[k].data.title \notin C24_TitlesOf(imports[3 - i].file)
            /\ \A k \in own : \A j \in 1..Len(gateway[k].properties) :
                   gateway[k].properties[j].title
                       \notin {Trim(t) : t \in C24_TitlesOf(imports[3 - i].file)}

\* The two imports are interleaved: the first has filed a valid row and has
\* a row left to read while the second, with a valid and an invalid row of
\* its own, waits for its gateway call.
C24_Witness ==
    /\ imports[1].pc = "stream"
    /\ imports[1].rowIndex = 1
    /\ Len(imports[1].results) = 1
    /\ imports[1].unread # <<>>
    /\ imports[2].pc = "insertMany"
    /\ Len(imports[2].results) = 1
    /\ Len(imports[2].errors) = 1
    /\ Len(gateway) = 1

\* ------------------------------------------------------------------ C30
\* The request of POST /api/generate-description passes validation:
\* bedrooms, bathrooms and price are numbers of at least 1 and location is a
\* non-empty string.
C30_PassesValidation ==
    /\ \A field \in {reqBody.bedrooms, reqBody.bathrooms, reqBody.price} :
           field.type = "number" /\ field.num >= 1
    /\ reqBody.location.type = "string"
    /\ reqBody.location.str # ""

\* C30: a request that passes validation is always answered success: true
\* with a description, and when the language-model call failed or returned no
\* usable choice the description is the template fallback description.
C30_ValidRequestAlwaysSucceeds ==
    (mktPc = "done" /\ C30_PassesValidation) =>
        /\ Len(mktResponses) = 1
        /\ mktResponses[1].status = 200
        /\ mktResponses[1].success = <<TRUE>>
        /\ mktResponses[1].description # <<>>
        /\ (completion # <<>> /\ CompletionThrows(completion[1])) =>
               mktResponses[1].description
                   = <<GenerateFallbackDescription(MktPropertyData(reqBody))>>

\* The part of C30 that the code keeps: with amenities missing or an array,
\* every valid request is answered 200 with a description, the fallback when
\* the call failed.
C30_HoldsForArrayAmenities ==
    (reqBody.amenities.type # "string") => C30_ValidRequestAlwaysSucceeds

\* A valid request with amenities given as a string was answered 500.
C30_Failure ==
    /\ mktPc = "done"
    /\ C30_PassesValidation
    /\ reqBody.amenities = Str("pool")
    /\ mktResponses = <<MktJson(500, <<>>, "Internal server error",
                                <<"amenities.join is not a function">>, <<>>)>>

\* The language model failed and the fallback description was returned.
C30_FallbackReturned ==
    /\ mktPc = "done"
    /\ C30_PassesValidation
    /\ completion # <<>> /\ CompletionThrows(completion[1])
    /\ mktResponses[1].description = <<GenerateFallbackDescription(MktPropertyData(reqBody))>>

====
